---- MODULE Spec2Model ----
(***************************************************************************)
(* Emotion-to-haptic-pattern pipeline and Arduino device transport of      *)
(* try_adk_agent.                                                          *)
(*                                                                         *)
(* Real numbers of the Python code (intensities, multipliers, frequencies) *)
(* are decimal fractions here: a number x is the integer x * One,          *)
(* One = 10000.  Where the binary floats of the code leave a product just  *)
(* below its decimal value the model takes it one unit of 1/One closer to  *)
(* zero (FloatLow, FMul), and to_dict's int(intensity * 100) is taken one  *)
(* less where intensity * 100 falls just below an integer (ToDictLow), so  *)
(* that the wire intensities are those of the code.  Human-readable        *)
(* description strings of the result dictionaries are left out.            *)
(***************************************************************************)
EXTENDS Integers, Sequences, FiniteSets, TLC

VARIABLES
    emotions,       \* the emotion vector of the last pattern-generation call
    tool,           \* the pattern-generation function last called
    result,         \* what that call returned
    is_connected,   \* ArduinoController.is_connected
    session,        \* ArduinoController.session: "none", "open" or "closed"
    wifi_connected, \* VibrationSensorControllerWiFi.is_connected
    wifi_session,   \* VibrationSensorControllerWiFi.session
    wifi_running,   \* VibrationSensorControllerWiFi._running
    op,             \* the controller operation that returned last ("none"
                    \* once a call has taken another step)
    ret,            \* what it returned: TRUE, FALSE, "None", "raised", ...
    pre_connected,  \* is_connected when that operation was called
    reply,          \* what the device did with the request of that operation
    requests,       \* the requests that operation put on the wire and the
                    \* session releases ("close") it made, in order
    history,        \* how the controller got here: connect/disconnect outcomes
    live,           \* sessions the ArduinoController opened and has not closed
    args,           \* the arguments of the coming call of a pure function
    chat_emotion,   \* EmotionalChatbot.emotion
    chat_input,     \* the input of the last process_input call
    chat_ret,       \* how that call ended
    chat_calls,     \* the number of process_input calls made
    frame,          \* the call each calling task has in progress: the
                    \* operation, the await it stands at, is_connected at
                    \* the call, the requests made so far, the reply seen,
                    \* the controller whose method it awaits, and a
                    \* value it keeps across the await (the task it
                    \* awaits, the threshold it posted)
    side_calls,     \* the number of calls made by the side task
    last_sent,      \* the last request an ArduinoController call put on the
                    \* wire
    sent_pattern,   \* the pattern the last call posted
    controllers,    \* the controllers initialize_arduino created, in
                    \* order: is_connected and session of each (and
                    \* _running of a WiFi controller)
    held,           \* the one the process-wide arduino_controller refers
                    \* to: an index of controllers, 0 for None
    init_calls,     \* the number of initialize_arduino calls made
    vibration_enabled, \* vibration_settings["vibration_enabled"] of the last
                       \* control_vibration call
    arduino_sent,   \* "arduino_sent" of the last control_vibration result
    arduino_initialized, \* arduino_initialized of agent_mcp/vibration_tool.py
                         \* ("absent" in the processes of the servers,
                         \* which have no such flag)
    ser_port,       \* VibrationSensorController.port is set
    ser_connection, \* serial_connection: "none" for None, "open", or
                    \* "closed" for a port that was closed
    ser_buffer,     \* the lines the device wrote that were not read yet
    ser_queue,      \* _read_queue
    ser_turns,      \* for each task, the time its call has waited for
                    \* a response: MaxWaitTurns make the timeout
    ser_get,        \* for each task, the Queue.get task of the wait_for
                    \* its call stands in: where it stands and the item
                    \* it took
    ser_getters,    \* the tasks whose Queue.get waits for an item, in
                    \* the order they began to wait
    ser_connected,  \* VibrationSensorController.is_connected
    ser_running,    \* VibrationSensorController._running
    ser_tasks,      \* the _serial_read_loop tasks created so far: where
                    \* each stands, the callback it waits in and its
                    \* buffer
    ser_read_task,  \* _read_task: an index of ser_tasks, 0 for None
    ser_callbacks,  \* VibrationSensorController.callbacks: the kind of
                    \* each callback registered
    ser_threshold,  \* VibrationSensorController.sensor_threshold
    mon_tasks,      \* the _monitor_loop tasks created so far, each with
                    \* where it stands and the callback it waits in
    mon_task,       \* _monitoring_task: an index of mon_tasks, 0 for None
    mon_callbacks,  \* the number of callbacks the monitoring loops called
    callbacks,      \* VibrationSensorControllerWiFi.callbacks: the kind of
                    \* each callback registered
    sensor_threshold, \* VibrationSensorControllerWiFi.sensor_threshold
    mon_stopped     \* stop_monitoring or disconnect() has returned, and
                    \* no _start_monitoring has begun since

genVars == <<emotions, tool, result, args>>
ctlVars == <<is_connected, session, wifi_connected, wifi_session, wifi_running,
             op, ret, pre_connected, reply, requests, history, live>>
chatVars == <<chat_emotion, chat_input, chat_ret, chat_calls>>
callVars == <<frame, side_calls, last_sent, sent_pattern>>
initVars == <<controllers, held, init_calls, vibration_enabled,
             arduino_sent, arduino_initialized>>
serVars == <<ser_port, ser_connection, ser_buffer, ser_queue, ser_turns,
            ser_get, ser_getters,
            ser_connected, ser_running, ser_tasks, ser_read_task,
            ser_callbacks, ser_threshold>>
monVars == <<mon_tasks, mon_task, mon_callbacks, callbacks,
            sensor_threshold, mon_stopped>>
taskVars == <<serVars, monVars>>
moreVars == <<chatVars, callVars, initVars, taskVars>>
notChatVars == <<genVars, ctlVars, callVars, initVars, taskVars>>
vars == <<emotions, tool, result, is_connected, session, wifi_connected,
          wifi_session, wifi_running, op, ret, pre_connected, reply, requests,
          history, live, args, chat_emotion, chat_input, chat_ret,
          chat_calls, frame, side_calls, last_sent, sent_pattern,
          controllers, held, init_calls, vibration_enabled,
          arduino_sent, arduino_initialized, ser_port, ser_connection,
          ser_buffer, ser_queue, ser_turns, ser_get, ser_getters,
          ser_connected, ser_running,
          ser_tasks, ser_read_task, ser_callbacks, ser_threshold,
          mon_tasks, mon_task, mon_callbacks, callbacks, sensor_threshold,
          mon_stopped>>

----------------------------------------------------------------------------
(* Bounds *)

\* emotion values offered to the generators: -BelowZero..MaxEmotion, which
\* holds the documented range 0..5 and values on either side of it
BelowZero == 3
MaxEmotion == 6

\* the number of process_input calls made on one EmotionalChatbot
MaxChatCalls == 6

\* the number of initialize_arduino calls made in one process
MaxInitCalls == 3

\* the lines the device may have written and the host not yet read
MaxLines == 2

\* the units of time that make the response timeout of
\* _read_serial_response
MaxWaitTurns == 2

\* the number of _monitor_loop tasks, and of _serial_read_loop tasks,
\* created on one controller
MaxTasks == 2

\* the number of callbacks the monitoring loops call
MaxCallbacks == 2

\* the number of callbacks registered with add_vibration_callback
MaxListeners == 2

\* the number of calls made by the task whose calls overlap those of the
\* main task
MaxSideCalls == 2

\* retry_count of a controller: 0..MaxRetry (the default is 3)
MaxRetry == 3

\* repeat_count of a custom pattern: 0..MaxRepeat
MaxRepeat == 3

\* intensities offered to create_custom_pattern: tenths from -OverRange/10
\* to 1 + OverRange/10 (and 0.35 and 0.4143)
OverRange == 5

EmotionValues == (0 - BelowZero)..MaxEmotion

----------------------------------------------------------------------------
(* Fixed-point numbers *)

One == 100 * 100

Tenths(n) == n * (One \div 10)

Mul(a, b) == (a * b) \div One

\* x / 5 for an integer x (Python true division)
Div5(x) == (x * One) \div 5

\* Python int(): truncation toward zero
PyInt(x) == IF x >= 0 THEN x \div One ELSE -((-x) \div One)

\* 1.0 as the intensity of a VibrationStep: step intensities are held in
\* units of 1/Fine, in which the product of two numbers of four decimal
\* places is a whole number
Fine == One * One

Min(a, b) == IF a <= b THEN a ELSE b

Max(a, b) == IF a >= b THEN a ELSE b

----------------------------------------------------------------------------
(* Patterns *)

VibrationStep(intensity, duration) ==
    [intensity |-> intensity, duration |-> duration]

VibrationPattern(steps, interval, repeat_count) ==
    [steps |-> steps, interval |-> interval, repeat_count |-> repeat_count]

StepToDict255(step) ==
    [intensity |-> PyInt((step.intensity \div One) * 255),
     duration |-> step.duration]

\* the hundredths h for which the float nearest to h / 100, times 100, is
\* just below h (0.58 * 100 is 57.99999999999999), up to 2.55
ToDictLow ==
    {29, 57, 58, 113, 114, 115, 116, 201, 203, 205, 207, 226, 228, 230, 232,
     251, 253, 255}

\* int(intensity * 100) on the float: truncation toward zero, one less in
\* size where the float product falls just short of a whole number
IntTimes100(intensity) ==
    LET size == IF intensity >= 0 THEN intensity ELSE 0 - intensity
        hundredth == Fine \div 100
        low == size % hundredth = 0 /\ (size \div hundredth) \in ToDictLow
        n == IF low THEN size \div hundredth - 1 ELSE size \div hundredth
    IN  IF intensity >= 0 THEN n ELSE 0 - n

\* VibrationStep.to_dict with the default intensity_scale = 100
StepToDict(step) ==
    [intensity |-> IntTimes100(step.intensity), duration |-> step.duration]

\* VibrationPattern.to_dict with the default intensity_scale = 100
PatternToDict(p) ==
    [steps |-> [i \in 1..Len(p.steps) |-> StepToDict(p.steps[i])],
     interval |-> p.interval,
     repeat_count |-> p.repeat_count]

PresetJoy ==
    VibrationPattern(<<VibrationStep(Tenths(6) * One, 100),
                       VibrationStep(0, 50),
                       VibrationStep(Tenths(8) * One, 150),
                       VibrationStep(0, 50),
                       VibrationStep(Tenths(6) * One, 100)>>, 50, 2)

PresetAnger ==
    VibrationPattern(<<VibrationStep(Tenths(9) * One, 200),
                       VibrationStep(0, 30),
                       VibrationStep(Tenths(10) * One, 150),
                       VibrationStep(0, 30),
                       VibrationStep(Tenths(8) * One, 200)>>, 20, 3)

PresetSorrow ==
    VibrationPattern(<<VibrationStep(Tenths(8) * One, 500),
                       VibrationStep(Tenths(6) * One, 300),
                       VibrationStep(Tenths(4) * One, 200)>>, 100, 2)

PresetPleasure ==
    VibrationPattern(<<VibrationStep(Tenths(6) * One, 300),
                       VibrationStep(Tenths(8) * One, 400),
                       VibrationStep(Tenths(7) * One, 300),
                       VibrationStep(Tenths(5) * One, 200)>>, 50, 1)

PresetNeutral ==
    VibrationPattern(<<VibrationStep(Tenths(5) * One, 200)>>, 0, 1)

\* emotion_map followed by EmotionVibrationPatterns.get_pattern
get_pattern(emotion_name) ==
    CASE emotion_name = "joy"   -> PresetJoy
      [] emotion_name = "fun"   -> PresetPleasure
      [] emotion_name = "anger" -> PresetAnger
      [] emotion_name = "sad"   -> PresetSorrow
      [] OTHER                  -> PresetNeutral

----------------------------------------------------------------------------
(* Dominant emotion *)

\* insertion order of the emotions dict
KeyOrder == <<"joy", "fun", "anger", "sad">>

EmotionVectors == [{"joy", "fun", "anger", "sad"} -> EmotionValues]

Emotions(joy, fun, anger, sad) ==
    [k \in {"joy", "fun", "anger", "sad"} |->
        CASE k = "joy" -> joy [] k = "fun" -> fun
          [] k = "anger" -> anger [] OTHER -> sad]

RECURSIVE MaxScanLast(_, _, _)
MaxScanLast(e, i, best) ==
    IF i > Len(KeyOrder) THEN best
    ELSE MaxScanLast(e, i + 1,
                     IF e[KeyOrder[i]] >= e[best] THEN KeyOrder[i] ELSE best)

\* max(emotions.items(), key=lambda x: x[1]): a later item replaces the best
\* one so far only when its value is strictly greater
RECURSIVE MaxScan(_, _, _)
MaxScan(e, i, best) ==
    IF i > Len(KeyOrder) THEN best
    ELSE MaxScan(e, i + 1,
                 IF e[KeyOrder[i]] > e[best] THEN KeyOrder[i] ELSE best)

max_emotion_last(e) == MaxScanLast(e, 2, KeyOrder[1])

max_emotion(e) == MaxScan(e, 2, KeyOrder[1])

\* 0.2 + (emotion_value / 5) * 0.8
emotion_multiplier(emotion_value) ==
    Tenths(2) + Mul(Div5(emotion_value), Tenths(8))

mixed_emotions_above3(e, dominant) ==
    SelectSeq(KeyOrder, LAMBDA emo: emo /= dominant /\ e[emo] > 3)

\* [emo for emo, val in emotions.items() if emo != dominant and val >= 3]
mixed_emotions(e, dominant) ==
    SelectSeq(KeyOrder, LAMBDA emo: emo /= dominant /\ e[emo] >= 3)

----------------------------------------------------------------------------
(* VibrationPatternGenerator.from_emotion_values *)

NoPattern == VibrationPattern(<<>>, 0, 0)

\* the products intensity * factor, both in units of 1/One, whose decimal
\* value is a whole hundredth and whose binary floating point value is
\* closer to zero and truncates to a smaller hundredth: 0.1 * 0.7 is
\* 0.06999999999999999 and 0.35 * 0.2 is 0.06999999999999999; with the
\* intensity scales of the emotion values -3, -1 and 7 (-0.28, 0.04, 1.32,
\* themselves sums of inexact floats) 0.5 * 0.04 is 0.01999999999999999
FloatLow ==
    {<<Tenths(1), Tenths(7)>>, <<Tenths(2), Tenths(7)>>,
     <<Tenths(4), Tenths(7)>>, <<Tenths(7), Tenths(7)>>,
     <<Tenths(8), Tenths(7)>>, <<Tenths(7), Tenths(2)>>,
     <<35 * 100, Tenths(2)>>,
     <<Tenths(5), 0 - 28 * 100>>, <<Tenths(10), 0 - 28 * 100>>,
     <<Tenths(5), 4 * 100>>, <<Tenths(10), 4 * 100>>,
     <<Tenths(5), 132 * 100>>}

\* intensity * factor as the floats give it, in units of 1/Fine: the
\* intensity is an argument or a literal, a whole number of units of
\* 1/One, and so is the factor; the product is the decimal product, one
\* unit closer to zero where the float product is closer to zero
FMul(intensity, factor) ==
    LET a == intensity \div One
        exact == a * factor
    IN  IF <<a, factor>> \in FloatLow
        THEN IF exact > 0 THEN exact - 1 ELSE exact + 1
        ELSE exact

ScaleStepsStretched(steps, intensity_scale) ==
    [i \in 1..Len(steps) |->
        VibrationStep(Min(FMul(steps[i].intensity, intensity_scale), Fine),
                      Mul(steps[i].duration, intensity_scale))]

\* min(step.intensity * intensity_scale, 1.0), the duration kept
ScaleSteps(steps, intensity_scale) ==
    [i \in 1..Len(steps) |->
        VibrationStep(Min(FMul(steps[i].intensity, intensity_scale), Fine),
                      steps[i].duration)]

from_emotion_values_neutral(joy, fun, anger, sad) ==
    LET e == Emotions(joy, fun, anger, sad)
        emotion_name == max_emotion(e)
        emotion_value == e[emotion_name]
        base_pattern == IF emotion_value = 0 THEN PresetNeutral
                        ELSE get_pattern(emotion_name)
        intensity_scale == emotion_multiplier(emotion_value)
        repeat_scale == 1 + (emotion_value - 1) \div 2
    IN  VibrationPattern(ScaleSteps(base_pattern.steps, intensity_scale),
                         base_pattern.interval,
                         IF emotion_value = 0 THEN base_pattern.repeat_count
                         ELSE base_pattern.repeat_count * repeat_scale)

from_emotion_values(joy, fun, anger, sad) ==
    LET e == Emotions(joy, fun, anger, sad)
        emotion_name == max_emotion(e)
        emotion_value == e[emotion_name]
        base_pattern == get_pattern(emotion_name)
        intensity_scale == emotion_multiplier(emotion_value)
        repeat_scale == 1 + (emotion_value - 1) \div 2
    IN  IF emotion_value = 0 THEN NoPattern
        ELSE VibrationPattern(ScaleSteps(base_pattern.steps, intensity_scale),
                              base_pattern.interval,
                              base_pattern.repeat_count * repeat_scale)

----------------------------------------------------------------------------
(* VibrationPatternGenerator.create_custom_pattern *)

ClampNone(intensity) == intensity * One

\* max(0.0, min(1.0, intensity)) of an argument given in units of 1/One
Clamp(intensity) == Max(0, Min(One, intensity)) * One

DefaultPatternEmpty(intensity, duration_ms, repeat_count) == NoPattern

\* the else branch: a single step
DefaultPattern(intensity, duration_ms, repeat_count) ==
    VibrationPattern(<<VibrationStep(intensity, duration_ms)>>, 0,
                     repeat_count)

create_custom_pattern(pattern_type, intensity0, duration_ms, repeat_count) ==
    LET intensity == Clamp(intensity0) IN
        CASE pattern_type = "pulse" ->
               VibrationPattern(
                   <<VibrationStep(intensity, duration_ms \div 2),
                     VibrationStep(0, duration_ms \div 2)>>,
                   50, repeat_count)
          [] pattern_type = "wave" ->
               VibrationPattern(
                   <<VibrationStep(FMul(intensity, Tenths(3)),
                                   duration_ms \div 3),
                     VibrationStep(FMul(intensity, Tenths(7)),
                                   duration_ms \div 3),
                     VibrationStep(intensity, duration_ms \div 3)>>,
                   50, repeat_count)
          [] pattern_type = "burst" ->
               VibrationPattern(
                   <<VibrationStep(intensity, 100), VibrationStep(0, 50)>>,
                   30, repeat_count * 3)
          [] pattern_type = "fade" ->
               VibrationPattern(
                   <<VibrationStep(intensity, duration_ms \div 2),
                     VibrationStep(FMul(intensity, Tenths(5)),
                                   duration_ms \div 4),
                     VibrationStep(FMul(intensity, Tenths(2)),
                                   duration_ms \div 4)>>,
                   50, repeat_count)
          [] OTHER -> DefaultPattern(intensity, duration_ms, repeat_count)

----------------------------------------------------------------------------
(* generate_vibration_pattern, agent function tool (agent/agent.py) *)

agent_vibration_patterns ==
    [k \in {"joy", "fun", "anger", "sad"} |->
        CASE k = "joy" ->
               [pattern |-> "pulse", intensity_base |-> One,
                frequency_base |-> 5 * One, duration_base |-> 10 * One]
          [] k = "fun" ->
               [pattern |-> "wave", intensity_base |-> One,
                frequency_base |-> 6 * One, duration_base |-> 8 * One]
          [] k = "anger" ->
               [pattern |-> "burst", intensity_base |-> One,
                frequency_base |-> 8 * One, duration_base |-> 6 * One]
          [] OTHER ->
               [pattern |-> "fade", intensity_base |-> One,
                frequency_base |-> 4 * One, duration_base |-> 12 * One]]

\* f"{base_pattern['pattern']}_mixed"
MixedName(pattern) ==
    CASE pattern = "pulse" -> "pulse_mixed"
      [] pattern = "wave"  -> "wave_mixed"
      [] pattern = "burst" -> "burst_mixed"
      [] pattern = "fade"  -> "fade_mixed"
      [] OTHER             -> "mixed"

NoVibration ==
    [vibration_enabled |-> FALSE, pattern |-> "none", intensity |-> 0,
     frequency |-> 0, duration |-> 0]

\* the literal Arduino steps of the agent tool, on the 0..100 wire scale
AgentSteps ==
    <<[intensity |-> 100, duration |-> 2000],
      [intensity |-> 0,   duration |-> 200],
      [intensity |-> 100, duration |-> 2000],
      [intensity |-> 0,   duration |-> 200],
      [intensity |-> 100, duration |-> 2000]>>

agent_generate_vibration_pattern(joy, fun, anger, sad) ==
    LET e == Emotions(joy, fun, anger, sad)
        dominant_emotion == max_emotion(e)
        emotion_value == e[dominant_emotion]
        base_pattern == agent_vibration_patterns[dominant_emotion]
        multiplier == emotion_multiplier(emotion_value)
        mixed == mixed_emotions(e, dominant_emotion)
        pattern_type == IF mixed /= <<>> THEN MixedName(base_pattern.pattern)
                        ELSE base_pattern.pattern
        intensity_adjustment == IF mixed /= <<>> THEN Tenths(11) ELSE One
        frequency_adjustment == IF mixed /= <<>> THEN Tenths(12) ELSE One
        final_intensity ==
            Min(Mul(Mul(base_pattern.intensity_base, multiplier),
                    intensity_adjustment), One)
        frequency ==
            Mul(Mul(base_pattern.frequency_base, multiplier),
                frequency_adjustment)
    IN  IF emotion_value = 0 THEN NoVibration
        ELSE [vibration_enabled |-> TRUE,
              pattern |-> pattern_type,
              intensity |-> final_intensity,
              frequency |-> frequency,
              duration |-> Mul(base_pattern.duration_base, multiplier),
              dominant_emotion |-> dominant_emotion,
              mixed_emotions |-> mixed,
              emotion_level |-> emotion_value,
              vibration_pattern |->
                  [steps |-> AgentSteps, interval |-> 0,
                   repeat_count |-> Max(3, PyInt(frequency))]]

----------------------------------------------------------------------------
(* generate_vibration_pattern, WiFi vibration MCP server *)

wifi_vibration_patterns ==
    [k \in {"joy", "fun", "anger", "sad"} |->
        CASE k = "joy" ->
               [pattern |-> "pulse", intensity_base |-> Tenths(6),
                frequency_base |-> 2 * One, duration_base |-> Tenths(5)]
          [] k = "fun" ->
               [pattern |-> "wave", intensity_base |-> Tenths(7),
                frequency_base |-> 3 * One, duration_base |-> Tenths(3)]
          [] k = "anger" ->
               [pattern |-> "burst", intensity_base |-> Tenths(9),
                frequency_base |-> 5 * One, duration_base |-> Tenths(2)]
          [] OTHER ->
               [pattern |-> "fade", intensity_base |-> Tenths(4),
                frequency_base |-> One, duration_base |-> One]]

wifi_generate_vibration_pattern(joy, fun, anger, sad) ==
    LET e == Emotions(joy, fun, anger, sad)
        dominant_emotion == max_emotion(e)
        emotion_value == e[dominant_emotion]
        base_pattern == wifi_vibration_patterns[dominant_emotion]
        multiplier == emotion_multiplier(emotion_value)
        mixed == mixed_emotions(e, dominant_emotion)
        pattern_type == IF mixed /= <<>> THEN MixedName(base_pattern.pattern)
                        ELSE base_pattern.pattern
        intensity_adjustment == IF mixed /= <<>> THEN Tenths(11) ELSE One
        frequency_adjustment == IF mixed /= <<>> THEN Tenths(12) ELSE One
    IN  IF emotion_value = 0 THEN NoVibration
        ELSE [vibration_enabled |-> TRUE,
              pattern |-> pattern_type,
              intensity |->
                  Min(Mul(Mul(base_pattern.intensity_base, multiplier),
                          intensity_adjustment), One),
              frequency |->
                  Mul(Mul(base_pattern.frequency_base, multiplier),
                      frequency_adjustment),
              duration |-> Mul(base_pattern.duration_base, multiplier),
              dominant_emotion |-> dominant_emotion,
              mixed_emotions |-> mixed,
              emotion_level |-> emotion_value]

----------------------------------------------------------------------------
(* generate_vibration_pattern, vibration MCP server, and the direct tool *)

RECURSIVE SumIntensity(_)
SumIntensity(steps) ==
    IF steps = <<>> THEN 0
    ELSE Head(steps).intensity + SumIntensity(Tail(steps))

RECURSIVE SumDuration(_)
SumDuration(steps) ==
    IF steps = <<>> THEN 0
    ELSE Head(steps).duration + SumDuration(Tail(steps))

\* the average intensity is rounded down to a multiple of 1/Fine
server_generate_vibration_pattern(joy, fun, anger, sad) ==
    LET pattern == from_emotion_values(joy, fun, anger, sad)
        e == Emotions(joy, fun, anger, sad)
        dominant_emotion == max_emotion(e)
        emotion_value == e[dominant_emotion]
        total_duration == SumDuration(pattern.steps)
                          + pattern.interval * (Len(pattern.steps) - 1)
    IN  IF emotion_value = 0 \/ pattern.steps = <<>>
        THEN [vibration_enabled |-> FALSE, pattern |-> "none",
              intensity |-> 0, frequency |-> 0, duration |-> 0,
              vibration_pattern |-> "None"]
        ELSE [vibration_enabled |-> TRUE,
              pattern |-> dominant_emotion,
              intensity |-> SumIntensity(pattern.steps)
                            \div Len(pattern.steps),
              frequency |-> pattern.repeat_count,
              duration |-> total_duration * (One \div 1000),
              dominant_emotion |-> dominant_emotion,
              mixed_emotions |-> mixed_emotions(e, dominant_emotion),
              emotion_level |-> emotion_value,
              vibration_pattern |-> PatternToDict(pattern)]

generate_vibration_pattern_direct(joy, fun, anger, sad) ==
    LET pattern == from_emotion_values(joy, fun, anger, sad)
        e == Emotions(joy, fun, anger, sad)
        dominant_emotion == max_emotion(e)
        emotion_value == e[dominant_emotion]
    IN  IF emotion_value = 0 \/ pattern.steps = <<>>
        THEN [vibration_enabled |-> FALSE, pattern |-> "None"]
        ELSE [vibration_enabled |-> TRUE,
              pattern |-> PatternToDict(pattern),
              dominant_emotion |-> dominant_emotion,
              emotion_level |-> emotion_value]

\* GenerateVibrationArgs: every field is declared ge=0, le=5
GenerateVibrationArgs(e) ==
    \A k \in DOMAIN e : e[k] >= 0 /\ e[k] <= 5

ValidationError == [error |-> "ValidationError"]

----------------------------------------------------------------------------
(* The device: what it does with one HTTP request *)

HttpStatuses == {200, 201, 404, 500}

\* the body of a response: the value of the status field of a JSON object
\* ("absent": an object without the field), a JSON array that is not empty
\* ("array"), the JSON value null ("null"), or a body that is not JSON
\* ("nonjson")
Bodies == {"ready", "online", "ok", "stopped", "error", "absent",
           "array", "null", "nonjson"}

NoArgs == [kind |-> "none"]

NoReply == [kind |-> "none", status |-> 0, body |-> "none"]

\* a request either fails in transport (timeout, connection refused) or is
\* answered with an HTTP status and a body
Replies ==
    [kind : {"timeout", "refused"}, status : {0}, body : {"none"}]
    \cup [kind : {"http"}, status : HttpStatuses, body : Bodies]

----------------------------------------------------------------------------
(* Calls in progress.  The methods of the controllers are coroutines: a    *)
(* call runs to its next await, and while it waits there the calls of the  *)
(* other tasks run.  A task awaits the call it made, so each of the tasks  *)
(* that call the controllers (Callers) has at most one call in progress;   *)
(* frame[c] is that call of task c.  What a call returned is recorded (op, *)
(* pre_connected, requests, reply, ret) when it returns and kept until a   *)
(* call takes its next step; last_sent is the request sent last by the     *)
(* calls in progress.                                                      *)

\* the task whose calls follow one another
MainCaller == "main"

\* a task whose calls run while those of the main task wait
SideCaller == "side"

Callers == {MainCaller, SideCaller}

\* the JSON body of a pattern: no pattern was built
NoBody == [steps |-> <<>>, interval |-> 0, repeat_count |-> 0]

IdleFrame ==
    [op |-> "none", pc |-> "idle", pre |-> FALSE, requests |-> <<>>,
     reply |-> NoReply, body |-> NoBody, ctl |-> 0, value |-> 0]

\* what the call that returned last was and gave
returned == <<op, pre_connected, requests, reply, ret, sent_pattern>>

\* a call takes a step without returning: what the last one returned is no
\* longer kept
Forgotten ==
    /\ op' = "none"
    /\ pre_connected' = FALSE
    /\ requests' = <<>>
    /\ reply' = NoReply
    /\ ret' = "None"
    /\ sent_pattern' = NoBody

\* no call is in progress
CallNew ==
    /\ frame = [c \in Callers |-> IdleFrame]
    /\ side_calls = 0
    /\ last_sent = "none"
    /\ sent_pattern = NoBody

AtRest == \A c \in Callers : frame[c] = IdleFrame

\* task c makes a call: its last call has returned
Calls(c) ==
    /\ frame[c] = IdleFrame
    /\ c /= MainCaller => side_calls < MaxSideCalls
    /\ side_calls' = IF c = MainCaller THEN side_calls ELSE side_calls + 1

\* the call of task c puts a request of the ArduinoController on the wire
\* and awaits the answer
Sends(c, o, at, pre, request, body) ==
    /\ frame' = [frame EXCEPT ![c] = [op |-> o, pc |-> at, pre |-> pre,
                                      requests |-> <<request>>,
                                      reply |-> NoReply, body |-> body,
                                      ctl |-> 0, value |-> 0]]
    /\ last_sent' = request
    /\ Forgotten

\* the call of task c reaches another await, keeping the value v across it
AwaitsWith(c, o, at, pre, reqs, r, v) ==
    /\ frame' = [frame EXCEPT ![c] = [op |-> o, pc |-> at, pre |-> pre,
                                      requests |-> reqs, reply |-> r,
                                      body |-> frame[c].body, ctl |-> 0,
                                      value |-> v]]
    /\ Forgotten
    /\ UNCHANGED last_sent

\* the call of task c reaches another await
Awaits(c, o, at, pre, reqs, r) ==
    AwaitsWith(c, o, at, pre, reqs, r, frame[c].value)

\* last_sent once the call of task c is over
NowSent(c) ==
    IF \A d \in Callers \ {c} : frame[d] = IdleFrame THEN "none"
    ELSE last_sent

\* the call of task c returns v
Returns(c, o, pre, reqs, r, v) ==
    /\ frame' = [frame EXCEPT ![c] = IdleFrame]
    /\ op' = o
    /\ pre_connected' = pre
    /\ requests' = reqs
    /\ reply' = r
    /\ ret' = v
    /\ sent_pattern' = frame[c].body
    /\ last_sent' = NowSent(c)

\* the call of task c stands at the await `at` of operation o
Waits(c, o, at) == frame[c].op = o /\ frame[c].pc = at

----------------------------------------------------------------------------
(* ArduinoController *)

\* BaseController._create_session: a session is created when none is held
\* or the held one is closed
NewSessionAlways(s) == TRUE

NewSession(s) == s = "none" \/ s = "closed"

create_session(s) == IF NewSession(s) THEN "open" ELSE s

\* the number of sessions _create_session opens when the controller holds s
Opened(s) == IF NewSession(s) THEN 1 ELSE 0

\* BaseController._close_session: a held session is closed and dropped
Closed(s) == IF s = "open" THEN 1 ELSE 0

\* the request does not come back with a response
TransportFails(r) == r.kind \in {"timeout", "refused"}

\* response.json() raises on a 200 whose body is not JSON
JsonRaises(r) == r.kind = "http" /\ r.status = 200 /\ r.body = "nonjson"

\* data.get raises on a 200 whose JSON body is an array or null
GetRaises(r) ==
    r.kind = "http" /\ r.status = 200 /\ r.body \in {"array", "null"}

CatchReraises(v, fallback) == v

\* try: ... except Exception: return fallback
Catch(v, fallback) == IF v = "raised" THEN fallback ELSE v

\* the value of get_status for a given device reply: the decoded body of a
\* 200 answer, whatever JSON value it is (null decodes to None)
StatusOf(r) ==
    IF r.kind = "http" /\ r.status = 200 /\ r.body \notin {"nonjson", "null"}
    THEN IF r.body = "array" THEN [kind |-> "list", status |-> "none"]
         ELSE [kind |-> "dict", status |-> r.body]
    ELSE [kind |-> "None", status |-> "none"]

\* status and status.get("status") == "ready"; the get on a list raises and
\* connect's handler returns False
ProbeReady(st) == st.kind = "dict" /\ st.status = "ready"

ProbeRaises(st) == st.kind = "list"

PatternAcceptedAny2xx(r) ==
    r.kind = "http" /\ r.status \in 200..299 /\ r.body \notin {"error"}

\* response.status == 200 and data.get("status") == "ok"; a transport
\* failure or an undecodable body raises and the handler returns False
PatternAccepted(r) ==
    r.kind = "http" /\ r.status = 200 /\ r.body = "ok"

\* response.status == 200 and data.get("status") == "stopped"
StopAccepted(r) ==
    r.kind = "http" /\ r.status = 200 /\ r.body = "stopped"

PyBool(b) == IF b THEN "True" ELSE "False"

PatternPostsRetried(r) ==
    IF r.kind = "http" /\ r.status < 500
    THEN <<"POST /pattern">>
    ELSE <<"POST /pattern", "POST /pattern", "POST /pattern">>

\* the requests of one send_pattern call on a connected controller: one
\* session.post, whatever comes back
PatternPosts(r) == <<"POST /pattern">>

\* what a step of an ArduinoController call leaves alone
ctlRest == <<genVars, chatVars, initVars, taskVars, wifi_connected,
             wifi_session, wifi_running>>

\* connect() up to the await of the status probe: _create_session, then
\* get_status sends GET /status on the session just ensured
connect_call(c) ==
    /\ Calls(c)
    /\ session' = create_session(session)
    /\ live' = live + Opened(session)
    /\ Sends(c, "connect", "probe_wait", is_connected,
             "GET /status", NoBody)
    /\ UNCHANGED <<is_connected, history>>
    /\ UNCHANGED ctlRest

\* the probe is answered or fails: is_connected is set when the status is
\* "ready" and left as it is otherwise
connect_answered(c, r) ==
    LET st == StatusOf(r) IN
        /\ Waits(c, "connect", "probe_wait")
        /\ IF ProbeReady(st)
           THEN /\ is_connected' = TRUE
                /\ history' = "connected"
           ELSE /\ UNCHANGED is_connected
                /\ history' = "connect_failed"
        /\ Returns(c, "connect", frame[c].pre, frame[c].requests, r,
                   Catch(IF ProbeRaises(st) THEN "raised"
                         ELSE PyBool(ProbeReady(st)), "False"))
        /\ UNCHANGED <<session, live, side_calls>>
        /\ UNCHANGED ctlRest

\* _close_session up to the await of session.close(): a held session is
\* closed; with no session held disconnect() runs on to its end
close_session(c, pre, reqs, r) ==
    IF session /= "none"
    THEN /\ session' = "closed"
         /\ live' = live - Closed(session)
         /\ Awaits(c, "disconnect", "closing", pre, Append(reqs, "close"), r)
         /\ UNCHANGED <<is_connected, history>>
    ELSE /\ is_connected' = FALSE
         /\ history' = "disconnected"
         /\ Returns(c, "disconnect", pre, reqs, r, "None")
         /\ UNCHANGED <<session, live>>

\* disconnect() up to its first await: when connected, stop() ensures a
\* session and posts /stop; otherwise it goes on to _close_session
disconnect_call(c) ==
    /\ Calls(c)
    /\ IF is_connected
       THEN /\ session' = create_session(session)
            /\ live' = live + Opened(session)
            /\ Sends(c, "disconnect", "stop_wait", TRUE,
                     "POST /stop", NoBody)
            /\ UNCHANGED <<is_connected, history>>
       ELSE /\ close_session(c, FALSE, <<>>, NoReply)
    /\ UNCHANGED ctlRest

disconnect_stop_answered_keeps_session(c, r) ==
    /\ Waits(c, "disconnect", "stop_wait")
    /\ IF StopAccepted(r)
       THEN close_session(c, frame[c].pre, frame[c].requests, r)
       ELSE /\ Returns(c, "disconnect", frame[c].pre, frame[c].requests, r,
                       "None")
            /\ history' = "disconnected"
            /\ UNCHANGED <<is_connected, session, live>>
    /\ UNCHANGED side_calls
    /\ UNCHANGED ctlRest

\* the stop request is answered or fails; what stop() returns or raises is
\* logged at most, and disconnect() goes on to _close_session
disconnect_stop_answered(c, r) ==
    /\ Waits(c, "disconnect", "stop_wait")
    /\ close_session(c, frame[c].pre, frame[c].requests, r)
    /\ UNCHANGED side_calls
    /\ UNCHANGED ctlRest

\* after the await of session.close(): self.session = None, whatever it
\* holds by now, and is_connected = False
disconnect_return(c) ==
    /\ Waits(c, "disconnect", "closing")
    /\ session' = "none"
    /\ is_connected' = FALSE
    /\ history' = "disconnected"
    /\ Returns(c, "disconnect", frame[c].pre, frame[c].requests,
               frame[c].reply, "None")
    /\ UNCHANGED <<live, side_calls>>
    /\ UNCHANGED ctlRest

send_pattern_call_unguarded(c) ==
    /\ Calls(c)
    /\ session' = create_session(session)
    /\ live' = live + Opened(session)
    /\ Sends(c, "send_pattern", "post_wait", is_connected,
             "POST /pattern", NoBody)
    /\ UNCHANGED <<is_connected, history>>
    /\ UNCHANGED ctlRest

\* send_pattern up to its await: False when not connected, otherwise a
\* session is ensured and the pattern is posted
send_pattern_call(c) ==
    /\ Calls(c)
    /\ IF ~is_connected
       THEN /\ Returns(c, "send_pattern", FALSE, <<>>, NoReply, "False")
            /\ UNCHANGED <<session, live>>
       ELSE /\ session' = create_session(session)
            /\ live' = live + Opened(session)
            /\ Sends(c, "send_pattern", "post_wait", TRUE,
                     "POST /pattern", NoBody)
    /\ UNCHANGED <<is_connected, history>>
    /\ UNCHANGED ctlRest

\* the POST /pattern of send_pattern, called directly or by
\* send_vibration_command, is answered or fails
send_pattern_answered(c, r) ==
    /\ frame[c].op \in {"send_pattern", "send_vibration_command"}
    /\ frame[c].pc = "post_wait"
    /\ Returns(c, frame[c].op, frame[c].pre, PatternPosts(r), r,
               Catch(IF TransportFails(r) \/ JsonRaises(r) \/ GetRaises(r)
                     THEN "raised"
                     ELSE PyBool(PatternAccepted(r)), "False"))
    /\ UNCHANGED <<is_connected, session, live, history>>
    /\ UNCHANGED side_calls
    /\ UNCHANGED ctlRest

\* stop() up to its await: False when not connected, otherwise a session is
\* ensured and /stop is posted
stop_call(c) ==
    /\ Calls(c)
    /\ IF ~is_connected
       THEN /\ Returns(c, "stop", FALSE, <<>>, NoReply, "False")
            /\ UNCHANGED <<session, live>>
       ELSE /\ session' = create_session(session)
            /\ live' = live + Opened(session)
            /\ Sends(c, "stop", "post_wait", TRUE,
                     "POST /stop", NoBody)
    /\ UNCHANGED <<is_connected, history>>
    /\ UNCHANGED ctlRest

stop_answered_disconnecting(c, r) ==
    /\ Waits(c, "stop", "post_wait")
    /\ Returns(c, "stop", frame[c].pre, frame[c].requests, r,
               PyBool(StopAccepted(r)))
    /\ is_connected' = (is_connected /\ ~StopAccepted(r))
    /\ UNCHANGED <<session, live, history>>
    /\ UNCHANGED side_calls
    /\ UNCHANGED ctlRest

\* the POST /stop is answered or fails
stop_answered(c, r) ==
    /\ Waits(c, "stop", "post_wait")
    /\ Returns(c, "stop", frame[c].pre, frame[c].requests, r,
               Catch(IF TransportFails(r) \/ JsonRaises(r) \/ GetRaises(r)
                     THEN "raised"
                     ELSE PyBool(StopAccepted(r)), "False"))
    /\ UNCHANGED <<is_connected, session, live, history>>
    /\ UNCHANGED side_calls
    /\ UNCHANGED ctlRest

\* get_status up to its await: only a missing session is created; a held
\* one is used as it is, and a request on a closed one raises before
\* anything is sent, which the handler turns into None
get_status_call(c) ==
    LET s == IF session = "none" THEN create_session(session) ELSE session
    IN  /\ Calls(c)
        /\ session' = s
        /\ live' = live + (IF session = "none" THEN Opened(session) ELSE 0)
        /\ IF s = "closed"
           THEN /\ Returns(c, "get_status", is_connected, <<>>, NoReply,
                           Catch("raised", "None"))
           ELSE Sends(c, "get_status", "get_wait", is_connected,
                      "GET /status", NoBody)
        /\ UNCHANGED <<is_connected, history>>
        /\ UNCHANGED ctlRest

\* the GET /status is answered or fails: the decoded body of a 200 answer,
\* None otherwise
get_status_answered(c, r) ==
    /\ Waits(c, "get_status", "get_wait")
    /\ Returns(c, "get_status", frame[c].pre, frame[c].requests, r,
               Catch(IF TransportFails(r) \/ JsonRaises(r) THEN "raised"
                     ELSE StatusOf(r).kind, "None"))
    /\ UNCHANGED <<is_connected, session, live, history>>
    /\ UNCHANGED side_calls
    /\ UNCHANGED ctlRest

\* the held session is closed without the controller dropping it (a
\* ClientSession can be closed by whoever holds a reference to it), between
\* two calls; the operations meet it as self.session.closed
session_closed ==
    /\ AtRest
    /\ session = "open"
    /\ op' = "session_closed"
    /\ pre_connected' = is_connected
    /\ session' = "closed"
    /\ live' = live - Closed(session)
    /\ requests' = <<>>
    /\ reply' = NoReply
    /\ ret' = "None"
    /\ sent_pattern' = NoBody
    /\ UNCHANGED <<is_connected, history, frame, side_calls, last_sent>>
    /\ UNCHANGED ctlRest

----------------------------------------------------------------------------
(* ArduinoController.send_vibration_command *)

\* a command string is the sequence of its parts between ':', each part
\* the sequence of its fields between ','.  A field is a word, spelled
\* letter by letter, or a number: text that int() and float() both accept
\* ("int": "128", "-1", value the integer), text that only float() accepts
\* and gives a finite value ("float": "2.0", "1e1", value in units of
\* 1/One), or text that float() turns into nan or an infinity ("nan",
\* "inf")
Word(text) == [type |-> "word", text |-> text, value |-> 0]

IntField(n) == [type |-> "int", text |-> <<>>, value |-> n]

FloatField(x) == [type |-> "float", text |-> <<>>, value |-> x]

\* "nan", "inf" and "-inf"
NotFinite(type) == [type |-> type, text |-> <<>>, value |-> 0]

\* the commands offered: "bad", "PULSE:1,2", "PULSE:x,2,3",
\* "PULSE:128,2.0,500", "WAVE:255,1.5,300", "BURST:128,1.5,300",
\* "FADE:255,2,500", "MIXED_FADE:51,2.0,500", "PULSE_MIXED:128,2.0,500",
\* "WAVE:255,x,300", "WAVE:1.5,1,300", "WAVE:255,1,30.5",
\* "pulse:128,2.0,500", "Pulse:-1,1e1,500", "mixed_Mixed_wave:300,-1.5,-7",
\* "mimixed_xed_burst:128,1,500", "FADE:128,nan,500", "BURST:128,inf,500"
\* and "TAP:128,nan,500"
Commands ==
    {<<<<Word(<<"b", "a", "d">>)>>>>,
     <<<<Word(<<"P", "U", "L", "S", "E">>)>>, <<IntField(1), IntField(2)>>>>,
     <<<<Word(<<"P", "U", "L", "S", "E">>)>>,
       <<Word(<<"x">>), IntField(2), IntField(3)>>>>,
     <<<<Word(<<"P", "U", "L", "S", "E">>)>>,
       <<IntField(128), FloatField(2 * One), IntField(500)>>>>,
     <<<<Word(<<"W", "A", "V", "E">>)>>,
       <<IntField(255), FloatField(15 * (One \div 10)), IntField(300)>>>>,
     <<<<Word(<<"B", "U", "R", "S", "T">>)>>,
       <<IntField(128), FloatField(15 * (One \div 10)), IntField(300)>>>>,
     <<<<Word(<<"F", "A", "D", "E">>)>>,
       <<IntField(255), IntField(2), IntField(500)>>>>,
     <<<<Word(<<"M", "I", "X", "E", "D", "_", "F", "A", "D", "E">>)>>,
       <<IntField(51), FloatField(2 * One), IntField(500)>>>>,
     <<<<Word(<<"P", "U", "L", "S", "E", "_", "M", "I", "X", "E", "D">>)>>,
       <<IntField(128), FloatField(2 * One), IntField(500)>>>>,
     <<<<Word(<<"W", "A", "V", "E">>)>>,
       <<IntField(255), Word(<<"x">>), IntField(300)>>>>,
     <<<<Word(<<"W", "A", "V", "E">>)>>,
       <<FloatField(15 * (One \div 10)), IntField(1), IntField(300)>>>>,
     <<<<Word(<<"W", "A", "V", "E">>)>>,
       <<IntField(255), IntField(1), FloatField(305 * (One \div 10))>>>>,
     <<<<Word(<<"p", "u", "l", "s", "e">>)>>,
       <<IntField(128), FloatField(2 * One), IntField(500)>>>>,
     <<<<Word(<<"P", "u", "l", "s", "e">>)>>,
       <<IntField(0 - 1), FloatField(10 * One), IntField(500)>>>>,
     <<<<Word(<<"m", "i", "x", "e", "d", "_", "M", "i", "x", "e", "d", "_",
              "w", "a", "v", "e">>)>>,
       <<IntField(300), FloatField(0 - 15 * (One \div 10)),
         IntField(0 - 7)>>>>,
     <<<<Word(<<"m", "i", "m", "i", "x", "e", "d", "_", "x", "e", "d", "_",
              "b", "u", "r", "s", "t">>)>>,
       <<IntField(128), IntField(1), IntField(500)>>>>,
     <<<<Word(<<"F", "A", "D", "E">>)>>,
       <<IntField(128), NotFinite("nan"), IntField(500)>>>>,
     <<<<Word(<<"B", "U", "R", "S", "T">>)>>,
       <<IntField(128), NotFinite("inf"), IntField(500)>>>>,
     <<<<Word(<<"T", "A", "P">>)>>,
       <<IntField(128), NotFinite("nan"), IntField(500)>>>>}

\* str.lower() on one character
Lower(ch) ==
    LET upper == <<"A", "B", "C", "D", "E", "F", "G", "H", "I", "J", "K",
                   "L", "M", "N", "O", "P", "Q", "R", "S", "T", "U", "V",
                   "W", "X", "Y", "Z">>
        lower == <<"a", "b", "c", "d", "e", "f", "g", "h", "i", "j", "k",
                   "l", "m", "n", "o", "p", "q", "r", "s", "t", "u", "v",
                   "w", "x", "y", "z">>
    IN  IF \E i \in 1..Len(upper) : upper[i] = ch
        THEN lower[CHOOSE i \in 1..Len(upper) : upper[i] = ch]
        ELSE ch

\* text.replace(old, ''): the occurrences of old are dropped, found from
\* the left and not overlapping; what is left is not searched again
RECURSIVE Replace(_, _)
Replace(text, old) ==
    IF Len(text) < Len(old) THEN text
    ELSE IF SubSeq(text, 1, Len(old)) = old
    THEN Replace(SubSeq(text, Len(old) + 1, Len(text)), old)
    ELSE <<Head(text)>> \o Replace(Tail(text), old)

\* parts[0].lower().replace('mixed_', ''); a first part that is not one
\* word (it holds a ',' or a number) is no pattern name
PatternType(part) ==
    IF Len(part) = 1 /\ part[1].type = "word"
    THEN Replace([i \in 1..Len(part[1].text) |-> Lower(part[1].text[i])],
                 <<"m", "i", "x", "e", "d", "_">>)
    ELSE <<>>

\* int(field) raises on anything but the text of an integer
IntRaises(field) == field.type /= "int"

\* float(field) raises on a word
FloatRaises(field) == field.type = "word"

\* float(field) of a number with a finite value, in units of 1/One
FloatOf(field) ==
    IF field.type = "int" THEN field.value * One ELSE field.value

WireStep(intensity, duration) ==
    [intensity |-> intensity, duration |-> duration]

\* int(intensity * k) for intensity = byte / 255.0: truncation toward zero
\* (the float product truncates as the exact quotient does for the bytes
\* up to 1000 in size and k in 20, 30, 50, 70, 100)
Scaled(byte, k) ==
    IF byte >= 0 THEN (byte * k) \div 255 ELSE 0 - ((0 - byte) * k) \div 255

\* the pattern types whose repeat_count is int(frequency) or
\* int(frequency * 3), which raises on nan and on an infinity
Repeated(pattern_type) ==
    pattern_type \in {<<"p", "u", "l", "s", "e">>, <<"w", "a", "v", "e">>,
                      <<"b", "u", "r", "s", "t">>, <<"f", "a", "d", "e">>}

\* the command is malformed: not two parts, not three parameters, or a
\* parameter that does not convert
Malformed(command) ==
    \/ Len(command) /= 2
    \/ Len(command[2]) /= 3
    \/ IntRaises(command[2][1])
    \/ FloatRaises(command[2][2])
    \/ IntRaises(command[2][3])
    \/ /\ command[2][2].type \in {"nan", "inf"}
       /\ Repeated(PatternType(command[1]))

\* the pattern dictionary built from a well-formed command
CommandPattern(command) ==
    LET pattern_type == PatternType(command[1])
        byte == command[2][1].value
        frequency == FloatOf(command[2][2])
        duration == command[2][3].value
    IN  CASE pattern_type = <<"p", "u", "l", "s", "e">> ->
               [steps |-> <<WireStep(Scaled(byte, 100), duration \div 2),
                            WireStep(0, duration \div 2)>>,
                interval |-> 50,
                repeat_count |-> PyInt(frequency)]
          [] pattern_type = <<"w", "a", "v", "e">> ->
               [steps |-> <<WireStep(Scaled(byte, 30), duration \div 3),
                            WireStep(Scaled(byte, 70), duration \div 3),
                            WireStep(Scaled(byte, 100), duration \div 3)>>,
                interval |-> 50,
                repeat_count |-> PyInt(frequency)]
          [] pattern_type = <<"b", "u", "r", "s", "t">> ->
               [steps |-> <<WireStep(Scaled(byte, 100), 100),
                            WireStep(0, 50)>>,
                interval |-> 30,
                repeat_count |-> PyInt(frequency * 3)]
          [] pattern_type = <<"f", "a", "d", "e">> ->
               [steps |-> <<WireStep(Scaled(byte, 100), duration \div 2),
                            WireStep(Scaled(byte, 50), duration \div 4),
                            WireStep(Scaled(byte, 20), duration \div 4)>>,
                interval |-> 50,
                repeat_count |-> PyInt(frequency)]
          [] OTHER ->
               [steps |-> <<WireStep(Scaled(byte, 100), duration)>>,
                interval |-> 0,
                repeat_count |-> 1]

\* send_vibration_command up to its await: False when not connected or when
\* the command is malformed; otherwise the pattern goes to send_pattern,
\* which ensures a session and posts it
send_vibration_command_call(c, command) ==
    /\ Calls(c)
    /\ IF ~is_connected \/ Malformed(command)
       THEN /\ Returns(c, "send_vibration_command", is_connected, <<>>,
                       NoReply, "False")
            /\ UNCHANGED <<session, live>>
       ELSE /\ session' = create_session(session)
            /\ live' = live + Opened(session)
            /\ Sends(c, "send_vibration_command", "post_wait", TRUE,
                     "POST /pattern", CommandPattern(command))
    /\ UNCHANGED <<is_connected, history>>
    /\ UNCHANGED ctlRest

----------------------------------------------------------------------------
(* BaseController._retry_request *)

\* what one attempt may meet: a timeout, another exception, or a response
RetryReplies ==
    [kind : {"timeout", "refused"}, status : {0}, body : {"none"}]
    \cup [kind : {"http"}, status : {200, 404, 499, 500, 503}, body : {"ok"}]

ReturnedBelow400(r) == r.kind = "http" /\ r.status < 400

\* response.status < 500: the response is returned
Returned(r) == r.kind = "http" /\ r.status < 500

wait_time_linear(attempt) == 2 * attempt

\* 2 ** attempt
wait_time(attempt) == 2 ^ attempt

RequestEvent(attempt) == [event |-> "request", n |-> attempt]

SleepEvent(seconds) == [event |-> "sleep", n |-> seconds]

\* what an attempt on a closed session meets: session.request raises
\* before anything is sent, and the except clause takes it
SessionClosed == [kind |-> "closed", status |-> 0, body |-> "none"]

\* the call so far: the requests sent and the sleeps begun, in order; what
\* each finished attempt met; what the call returned ("pending" until it
\* returns) and the status of a returned response
RetryLog(events, attempts, v, status) ==
    [events |-> events, attempts |-> attempts, ret |-> v, status |-> status]

\* what a step of _retry_request leaves alone
retryRest == <<emotions, args, chatVars, initVars, taskVars, is_connected,
               history, wifi_connected, wifi_session, wifi_running>>

\* after the except clauses of a failed attempt: the backoff sleep begins
\* when another attempt is left, otherwise the loop is over and the call
\* returns None
retry_failed(c, events, attempts, pre, reqs, r) ==
    LET attempt == Len(attempts) - 1 IN
        IF attempt < args.retry_count - 1
        THEN /\ result' = RetryLog(Append(events,
                                          SleepEvent(wait_time(attempt))),
                                   attempts, "pending", 0)
             /\ Awaits(c, "_retry_request", "sleeping", pre, reqs, r)
             /\ UNCHANGED side_calls
        ELSE /\ result' = RetryLog(events, attempts, "None", 0)
             /\ Returns(c, "_retry_request", pre, reqs, r, "None")
             /\ UNCHANGED side_calls

\* one pass of the loop body up to its await: a missing session is created
\* (a held one is used as it is), and the request is sent; on a closed
\* session it raises and the attempt has failed
retry_attempt(c, events, attempts, pre, reqs, r) ==
    LET attempt == Len(attempts)
        s == IF session = "none" THEN create_session(session) ELSE session
    IN  /\ session' = s
        /\ live' = live + (IF session = "none" THEN Opened(session) ELSE 0)
        /\ IF s = "closed"
           THEN retry_failed(c, events, Append(attempts, SessionClosed),
                             pre, reqs, r)
           ELSE /\ result' = RetryLog(Append(events, RequestEvent(attempt)),
                                      attempts, "pending", 0)
                /\ Awaits(c, "_retry_request", "request_wait", pre,
                          Append(reqs, "request"), r)
                /\ UNCHANGED side_calls

\* _retry_request is called on a controller built with the drawn
\* retry_count: with range(retry_count) empty it returns None at once
retry_call(c) ==
    /\ tool = "none"
    /\ args.kind = "retry"
    /\ frame[c] = IdleFrame
    /\ tool' = "_retry_request"
    /\ IF args.retry_count <= 0
       THEN /\ result' = RetryLog(<<>>, <<>>, "None", 0)
            /\ Returns(c, "_retry_request", is_connected, <<>>, NoReply,
                       "None")
            /\ UNCHANGED <<session, live, side_calls>>
       ELSE retry_attempt(c, <<>>, <<>>, is_connected, <<>>, NoReply)
    /\ UNCHANGED retryRest

\* the request of the attempt is answered or fails: a response with a
\* status below 500 is returned; a 5xx response, a timeout or another
\* exception makes the attempt a failed one
retry_answered(c, r) ==
    /\ Waits(c, "_retry_request", "request_wait")
    /\ IF Returned(r)
       THEN /\ result' = RetryLog(result.events, Append(result.attempts, r),
                                  "response", r.status)
            /\ Returns(c, "_retry_request", frame[c].pre, frame[c].requests,
                       r, "response")
            /\ UNCHANGED side_calls
       ELSE retry_failed(c, result.events, Append(result.attempts, r),
                         frame[c].pre, frame[c].requests, r)
    /\ UNCHANGED <<tool, session, live>>
    /\ UNCHANGED retryRest

\* asyncio.sleep(wait_time) is over: the next attempt begins
retry_wakes(c) ==
    /\ Waits(c, "_retry_request", "sleeping")
    /\ retry_attempt(c, result.events, result.attempts, frame[c].pre,
                     frame[c].requests, frame[c].reply)
    /\ UNCHANGED tool
    /\ UNCHANGED retryRest

----------------------------------------------------------------------------
(* VibrationSensorControllerWiFi.connect and disconnect *)

\* what a step of a call on the WiFi controller leaves alone
wifiRest == <<genVars, chatVars, initVars, serVars, is_connected, session,
              history, live>>

\* connect() up to the await of the status request: a new session replaces
\* the held one, and GET /status is sent on it
wifi_connect_call(c) ==
    /\ Calls(c)
    /\ wifi_session' = "open"
    /\ Awaits(c, "wifi_connect", "get_wait", wifi_connected,
              <<"GET /status">>, NoReply)
    /\ UNCHANGED <<wifi_connected, wifi_running, monVars>>
    /\ UNCHANGED wifiRest

\* the handler of connect() up to the await of session.close(): the session
\* held by now is closed; with none held is_connected is cleared and the
\* call returns False
wifi_connect_failed(c, r) ==
    IF wifi_session /= "none"
    THEN /\ wifi_session' = "closed"
         /\ Awaits(c, "wifi_connect", "handler_closing", frame[c].pre,
                   Append(frame[c].requests, "close"), r)
         /\ UNCHANGED wifi_connected
    ELSE /\ wifi_connected' = FALSE
         /\ Returns(c, "wifi_connect", frame[c].pre, frame[c].requests, r,
                    "False")
         /\ UNCHANGED wifi_session

\* the status request is answered or fails: the body of a 200 answer is
\* read next; on another status the session held by now is closed (with
\* none held the close raises, and the handler takes over); a transport
\* failure raises
wifi_connect_answered(c, r) ==
    /\ Waits(c, "wifi_connect", "get_wait")
    /\ IF r.kind = "http" /\ r.status = 200
       THEN /\ Awaits(c, "wifi_connect", "json_wait", frame[c].pre,
                      frame[c].requests, NoReply)
            /\ UNCHANGED <<wifi_connected, wifi_session>>
       ELSE IF r.kind = "http" /\ wifi_session /= "none"
            THEN /\ wifi_session' = "closed"
                 /\ Awaits(c, "wifi_connect", "closing", frame[c].pre,
                           Append(frame[c].requests, "close"), r)
                 /\ UNCHANGED wifi_connected
            ELSE wifi_connect_failed(c, r)
    /\ UNCHANGED <<wifi_running, side_calls, monVars>>
    /\ UNCHANGED wifiRest

\* the body of the 200 answer is read and decoded: status "online"
\* connects; another status runs off the end of the function (None) with
\* the session left as it is; a body that is not JSON, or not an object,
\* raises
wifi_connect_decoded(c, body) ==
    LET r == [kind |-> "http", status |-> 200, body |-> body] IN
        /\ Waits(c, "wifi_connect", "json_wait")
        /\ IF r.body \in {"nonjson", "array", "null"}
           THEN /\ wifi_connect_failed(c, r)
                /\ UNCHANGED wifi_running
           ELSE IF r.body = "online"
           THEN /\ wifi_connected' = TRUE
                /\ wifi_running' = TRUE
                /\ Returns(c, "wifi_connect", frame[c].pre,
                           frame[c].requests, r, "True")
                /\ UNCHANGED wifi_session
           ELSE /\ Returns(c, "wifi_connect", frame[c].pre,
                           frame[c].requests, r, "None")
                /\ UNCHANGED <<wifi_connected, wifi_session, wifi_running>>
        /\ UNCHANGED <<side_calls, monVars>>
        /\ UNCHANGED wifiRest

\* after the await of session.close(): False, the handler clearing
\* is_connected first
wifi_connect_closed(c) ==
    /\ frame[c].op = "wifi_connect"
    /\ frame[c].pc \in {"closing", "handler_closing"}
    /\ wifi_connected' = IF frame[c].pc = "handler_closing" THEN FALSE
                         ELSE wifi_connected
    /\ Returns(c, "wifi_connect", frame[c].pre, frame[c].requests,
               frame[c].reply, "False")
    /\ UNCHANGED <<wifi_session, wifi_running, side_calls, monVars>>
    /\ UNCHANGED wifiRest

----------------------------------------------------------------------------
(* EmotionalChatbot (etc/chatbot.py) *)

\* the inputs offered to process_input: a touch with an intensity (the
\* branch limits 0.3 and 0.7, 0.8, 0.85, 0.9 and 0.95 in the painful range,
\* and values on either side of [0,1] among them), a NaN intensity, and
\* inputs that are not JSON, lack "data" or "touched_area", are not a JSON
\* object or carry a "data" that is not a number
TouchIntensities ==
    {0 - Tenths(5), 0, Tenths(1), Tenths(3), Tenths(5), Tenths(7),
     Tenths(8), (17 * One) \div 20, Tenths(9), (19 * One) \div 20, One,
     Tenths(15)}

ChatInputs ==
    [kind : {"touch"}, data : TouchIntensities]
    \cup [kind : {"nan", "nonjson", "no_data", "no_area", "nonobject",
                  "nonnumber"}, data : {0}]

Abs(x) == IF x >= 0 THEN x ELSE 0 - x

\* the emotion values are held in units of 1/ChatOne: a third of 1/One is a
\* whole number of them, so that the pain factor (t - 0.7) / 0.3 of a touch
\* t and its products are held exactly
ChatOne == 30 * One

ChatTenths(n) == n * (ChatOne \div 10)

\* pleasure_factor * (n / 10), the factor in units of 1/One
PleasureTimes(pleasure_factor, n) ==
    (pleasure_factor * ChatTenths(n)) \div One

\* pain_factor * (n / 10) for pain_factor = over / 0.3, over = t - 0.7 in
\* units of 1/One
PainTimes(over, n) == (over * ChatTenths(n)) \div Tenths(3)

\* EmotionalChatbot.__init__
ChatNew ==
    /\ chat_emotion = [joy |-> ChatTenths(25), fun |-> ChatTenths(25),
                       anger |-> 0, sad |-> 0]
    /\ chat_input = [kind |-> "none", data |-> 0]
    /\ chat_ret = "none"
    /\ chat_calls = 0

update_emotion_unbounded(emotion, touch) ==
    LET touch_intensity == Max(0, Min(One, touch)) IN
        IF touch_intensity >= Tenths(3) /\ touch_intensity <= Tenths(7)
        THEN LET pleasure_factor == One - Abs(touch_intensity - Tenths(5)) * 2
             IN  [joy |-> emotion.joy + PleasureTimes(pleasure_factor, 5),
                  fun |-> emotion.fun + PleasureTimes(pleasure_factor, 3),
                  anger |-> emotion.anger - PleasureTimes(pleasure_factor, 2),
                  sad |-> emotion.sad - PleasureTimes(pleasure_factor, 2)]
        ELSE IF touch_intensity < Tenths(3)
        THEN [emotion EXCEPT !.fun = @ - ChatTenths(1),
                             !.sad = @ + ChatTenths(1)]
        ELSE LET over == touch_intensity - Tenths(7)
             IN  [joy |-> emotion.joy - PainTimes(over, 3),
                  fun |-> emotion.fun - PainTimes(over, 3),
                  anger |-> emotion.anger + PainTimes(over, 5),
                  sad |-> emotion.sad + PainTimes(over, 2)]

update_emotion(emotion, touch) ==
    LET touch_intensity == Max(0, Min(One, touch)) IN
        IF touch_intensity >= Tenths(3) /\ touch_intensity <= Tenths(7)
        THEN LET pleasure_factor == One - Abs(touch_intensity - Tenths(5)) * 2
             IN  [joy |-> Min(5 * ChatOne,
                              emotion.joy + PleasureTimes(pleasure_factor, 5)),
                  fun |-> Min(5 * ChatOne,
                              emotion.fun + PleasureTimes(pleasure_factor, 3)),
                  anger |-> Max(0, emotion.anger
                                       - PleasureTimes(pleasure_factor, 2)),
                  sad |-> Max(0, emotion.sad
                                     - PleasureTimes(pleasure_factor, 2))]
        ELSE IF touch_intensity < Tenths(3)
        THEN [emotion EXCEPT !.fun = Max(0, @ - ChatTenths(1)),
                             !.sad = Min(5 * ChatOne, @ + ChatTenths(1))]
        ELSE LET over == touch_intensity - Tenths(7)
             IN  [joy |-> Max(0, emotion.joy - PainTimes(over, 3)),
                  fun |-> Max(0, emotion.fun - PainTimes(over, 3)),
                  anger |-> Min(5 * ChatOne,
                                emotion.anger + PainTimes(over, 5)),
                  sad |-> Min(5 * ChatOne,
                              emotion.sad + PainTimes(over, 2))]

\* min(1, nan) is 1: a NaN intensity is the strongest touch
TouchOf(input) == IF input.kind = "nan" THEN One ELSE input.data

\* process_input: text that is not JSON is answered with an error message;
\* JSON that is not an object, or whose "data" is not a number, raises past
\* the JSONDecodeError handler before the emotion is touched; an object
\* without "data" or "touched_area" is answered without an update
process_input(input) ==
    /\ chat_calls < MaxChatCalls
    /\ chat_calls' = chat_calls + 1
    /\ chat_input' = input
    /\ chat_emotion' = IF input.kind \in {"touch", "nan"}
                       THEN update_emotion(chat_emotion, TouchOf(input))
                       ELSE chat_emotion
    /\ chat_ret' = CASE input.kind = "nonjson" -> "error_message"
                     [] input.kind \in {"nonobject", "nonnumber"} -> "raised"
                     [] OTHER -> "response"
    /\ UNCHANGED notChatVars

----------------------------------------------------------------------------
(* The tools of the vibration MCP server (vibration_server.py) and those   *)
(* of agent_mcp/vibration_tool.py: controllers[i] is the i-th              *)
(* ArduinoController they created and held is the one the process-wide     *)
(* arduino_controller refers to.  A tool call runs until it awaits a       *)
(* request or a session.close(); the calls of the other task run meanwhile *)

\* arduino_controller = None, in a process whose arduino_initialized is
\* flag
ToolsNew(flag) ==
    /\ controllers = <<>>
    /\ held = 0
    /\ init_calls = 0
    /\ vibration_enabled = "none"
    /\ arduino_sent = "none"
    /\ arduino_initialized = flag

\* the process of a server
GlueNew == ToolsNew("absent")

\* arduino_controller and arduino_controller.is_connected
HeldConnected == held /= 0 /\ controllers[held].is_connected

\* the controllers that hold an open session
OpenSessions ==
    {i \in 1..Len(controllers) : controllers[i].session = "open"}

\* what a step of a tool of the vibration MCP server leaves alone
toolRest == <<genVars, chatVars, taskVars, is_connected, session, history,
              live, wifi_connected, wifi_session, wifi_running>>

\* the same for a step that leaves arduino_initialized as it is
glueRest == <<toolRest, arduino_initialized>>

\* the tool call of task c awaits a method of controller i
ToolAwaits(c, o, at, i, pre, reqs, r, body) ==
    /\ frame' = [frame EXCEPT ![c] = [op |-> o, pc |-> at, pre |-> pre,
                                      requests |-> reqs, reply |-> r,
                                      body |-> body, ctl |-> i,
                                      value |-> 0]]
    /\ Forgotten
    /\ vibration_enabled' = "none"
    /\ arduino_sent' = "none"
    /\ UNCHANGED last_sent

\* the tool call of task c returns v; control_vibration answers with
\* arduino_sent
ToolReturns(c, o, pre, reqs, r, v, enabled, sent) ==
    /\ Returns(c, o, pre, reqs, r, v)
    /\ vibration_enabled' = enabled
    /\ arduino_sent' = sent

\* the pattern dictionaries given to send_vibration_direct and, as
\* vibration_pattern of the settings, to control_vibration; keys are the
\* keys a dictionary holds.  A pattern as to_dict writes it, one with the
\* steps only, one without steps, and one whose step has no duration
WireDicts ==
    <<[keys |-> {"steps", "interval", "repeat_count"},
       steps |-> <<[keys |-> {"intensity", "duration"}, intensity |-> 58,
                    duration |-> 100],
                   [keys |-> {"intensity", "duration"}, intensity |-> 0,
                    duration |-> 50]>>,
       interval |-> 100, repeat_count |-> 2],
      [keys |-> {"steps"},
       steps |-> <<[keys |-> {"intensity", "duration"}, intensity |-> 70,
                    duration |-> 200]>>,
       interval |-> 0, repeat_count |-> 0],
      [keys |-> {"interval", "repeat_count"}, steps |-> <<>>,
       interval |-> 50, repeat_count |-> 1],
      [keys |-> {"steps", "interval", "repeat_count"},
       steps |-> <<[keys |-> {"intensity"}, intensity |-> 70,
                    duration |-> 0]>>,
       interval |-> 50, repeat_count |-> 1]>>

\* the rebuilding of a pattern from a dictionary raises KeyError: no
\* "steps", or a step without "intensity" or "duration"
RebuildRaises(d) ==
    \/ "steps" \notin d.keys
    \/ \E i \in 1..Len(d.steps) :
           {"intensity", "duration"} \ d.steps[i].keys /= {}

\* VibrationPattern(steps=[VibrationStep(step["intensity"] / 100.0,
\* step["duration"]) ...], interval=d.get("interval", 50),
\* repeat_count=d.get("repeat_count", 1))
Rebuild(d) ==
    VibrationPattern(
        [i \in 1..Len(d.steps) |->
            VibrationStep(d.steps[i].intensity * (Fine \div 100),
                          d.steps[i].duration)],
        IF "interval" \in d.keys THEN d.interval ELSE 50,
        IF "repeat_count" \in d.keys THEN d.repeat_count ELSE 1)

\* what send_pattern returns for the answer to its POST
SendPatternResult(r) ==
    Catch(IF TransportFails(r) \/ JsonRaises(r) \/ GetRaises(r)
          THEN "raised"
          ELSE PyBool(PatternAccepted(r)), "False")

\* the tools that initialize: initialize_arduino, initialize_arduino_direct
\* (both "initialize_arduino"), and send_vibration_direct, which calls
\* initialize_arduino_direct while arduino_initialized is false
Initializes(c, at) ==
    /\ frame[c].op \in {"initialize_arduino", "send_vibration_direct"}
    /\ frame[c].pc = at

\* the initializing call of task c awaits a method of controller i
InitAwaits(c, at, i, pre, reqs, r) ==
    /\ frame' = [frame EXCEPT ![c] = [op |-> frame[c].op, pc |-> at,
                                      pre |-> pre, requests |-> reqs,
                                      reply |-> r, body |-> NoBody,
                                      ctl |-> i, value |-> frame[c].value]]
    /\ Forgotten
    /\ vibration_enabled' = "none"
    /\ arduino_sent' = "none"
    /\ UNCHANGED last_sent

\* send_vibration_direct from its connection check on, the controllers
\* being ctls: without a connected held controller the answer is an error;
\* a dictionary that does not rebuild raises, and the handler answers
\* success false; otherwise the pattern goes to send_pattern, which ensures
\* a session and posts its to_dict
send_vibration_direct_send(c, n, ctls, pre, reqs, r) ==
    IF /\ held /= 0
       /\ ctls[held].is_connected
       /\ ~RebuildRaises(WireDicts[n])
    THEN /\ controllers' = [ctls EXCEPT ![held].session = create_session(@)]
         /\ ToolAwaits(c, "send_vibration_direct", "post_wait", held, pre,
                       Append(reqs, "POST /pattern"), NoReply,
                       PatternToDict(Rebuild(WireDicts[n])))
    ELSE /\ controllers' = ctls
         /\ ToolReturns(c, "send_vibration_direct", pre, reqs, r, "False",
                        "none", "none")

\* the initialization is over with result v, the controllers being ctls:
\* initialize_arduino answers with it; send_vibration_direct returns a
\* failure as it is and goes on after a success
initialize_arduino_returns(c, ctls, pre, reqs, r, v) ==
    IF frame[c].op = "send_vibration_direct" /\ v = "True"
    THEN send_vibration_direct_send(c, frame[c].value, ctls, pre, reqs, r)
    ELSE /\ controllers' = ctls
         /\ ToolReturns(c, frame[c].op, pre, reqs, r, v, "none", "none")

\* arduino_controller = ArduinoController(...) and connect() up to the
\* await of its probe: the new controller replaces the held one, whatever
\* that one holds, opens a session and sends GET /status; ctls are the
\* controllers as the call has left them so far
initialize_arduino_connect(c, o, n, ctls, pre, reqs, r) ==
    /\ controllers' = Append(ctls, [is_connected |-> FALSE,
                                    session |-> create_session("none")])
    /\ held' = Len(ctls) + 1
    /\ frame' = [frame EXCEPT ![c] = [op |-> o, pc |-> "probe_wait",
                                      pre |-> pre,
                                      requests |-> Append(reqs,
                                                          "GET /status"),
                                      reply |-> r, body |-> NoBody,
                                      ctl |-> Len(ctls) + 1, value |-> n]]
    /\ Forgotten
    /\ vibration_enabled' = "none"
    /\ arduino_sent' = "none"
    /\ UNCHANGED last_sent

\* the initialization up to its first await, for the tool o: a held
\* controller that is connected is disconnected first, and its stop()
\* ensures a session and posts /stop; otherwise the new controller is
\* created at once
initialize_arduino_begin(c, o, n) ==
    /\ init_calls < MaxInitCalls
    /\ init_calls' = init_calls + 1
    /\ IF HeldConnected
       THEN /\ controllers' = [controllers EXCEPT
                                  ![held].session = create_session(@)]
            /\ UNCHANGED held
            /\ frame' = [frame EXCEPT
                            ![c] = [op |-> o, pc |-> "stop_wait",
                                    pre |-> TRUE,
                                    requests |-> <<"POST /stop">>,
                                    reply |-> NoReply, body |-> NoBody,
                                    ctl |-> held, value |-> n]]
            /\ Forgotten
            /\ vibration_enabled' = "none"
            /\ arduino_sent' = "none"
            /\ UNCHANGED last_sent
       ELSE initialize_arduino_connect(c, o, n, controllers, FALSE, <<>>,
                                       NoReply)

\* initialize_arduino and initialize_arduino_direct up to their first await
initialize_arduino_call(c) ==
    /\ Calls(c)
    /\ initialize_arduino_begin(c, "initialize_arduino", 0)
    /\ UNCHANGED glueRest

\* the stop request of the disconnect is answered or fails; whatever stop()
\* returns, disconnect() goes on to _close_session, up to the await of
\* session.close(): a held session is closed; with no session held
\* disconnect() is over and the tool goes on to the new controller
initialize_arduino_stopped(c, r) ==
    /\ Initializes(c, "stop_wait")
    /\ IF controllers[frame[c].ctl].session /= "none"
       THEN /\ controllers' = [controllers EXCEPT
                                  ![frame[c].ctl].session = "closed"]
            /\ UNCHANGED held
            /\ InitAwaits(c, "closing", frame[c].ctl, frame[c].pre,
                          Append(frame[c].requests, "close"), r)
       ELSE initialize_arduino_connect(
                c, frame[c].op, frame[c].value,
                [controllers EXCEPT ![frame[c].ctl].is_connected = FALSE],
                frame[c].pre, frame[c].requests, r)
    /\ UNCHANGED <<init_calls, side_calls>>
    /\ UNCHANGED glueRest

\* after the await of session.close(): the disconnected controller drops
\* its session and clears is_connected, and the new controller is created
initialize_arduino_closed(c) ==
    /\ Initializes(c, "closing")
    /\ initialize_arduino_connect(
           c, frame[c].op, frame[c].value,
           [controllers EXCEPT ![frame[c].ctl] =
               [is_connected |-> FALSE, session |-> "none"]],
           frame[c].pre, frame[c].requests, frame[c].reply)
    /\ UNCHANGED <<init_calls, side_calls>>
    /\ UNCHANGED glueRest

\* the probe of connect() is answered or fails: on a "ready" status the
\* controller that was probed is connected (and arduino_initialized set, in
\* the process that has it), and the status is read once more, from the
\* controller the reference holds by now (a missing session is created, a
\* closed one raises and the status is None); otherwise the initialization
\* has failed
initialize_arduino_probed(c, r) ==
    LET st == StatusOf(r)
        connected == Catch(IF ProbeRaises(st) THEN "raised"
                           ELSE PyBool(ProbeReady(st)), "False")
        ctls == IF connected = "True"
                THEN [controllers EXCEPT ![frame[c].ctl].is_connected = TRUE]
                ELSE controllers
        s == IF ctls[held].session = "none" THEN create_session("none")
             ELSE ctls[held].session
    IN  /\ Initializes(c, "probe_wait")
        /\ arduino_initialized' =
               IF connected = "True" /\ arduino_initialized /= "absent"
               THEN "True" ELSE arduino_initialized
        /\ IF connected = "True" /\ s /= "closed"
           THEN /\ controllers' = [ctls EXCEPT ![held].session = s]
                /\ InitAwaits(c, "status_wait", held, frame[c].pre,
                              Append(frame[c].requests, "GET /status"), r)
           ELSE initialize_arduino_returns(c, ctls, frame[c].pre,
                                           frame[c].requests, r, connected)
        /\ UNCHANGED <<held, init_calls, side_calls>>
        /\ UNCHANGED toolRest

\* the second GET /status is answered or fails: the initialization has
\* succeeded, with whatever status came back
initialize_arduino_status(c, r) ==
    /\ Initializes(c, "status_wait")
    /\ initialize_arduino_returns(c, controllers, frame[c].pre,
                                  frame[c].requests, r, "True")
    /\ UNCHANGED <<held, init_calls, side_calls>>
    /\ UNCHANGED glueRest

\* send_vibration_direct up to its first await, given the n-th dictionary:
\* while arduino_initialized is false initialize_arduino_direct is called
\* first
send_vibration_direct_call(c, n) ==
    /\ Calls(c)
    /\ arduino_initialized /= "absent"
    /\ IF arduino_initialized = "False"
       THEN initialize_arduino_begin(c, "send_vibration_direct", n)
       ELSE /\ send_vibration_direct_send(c, n, controllers, HeldConnected,
                                          <<>>, NoReply)
            /\ UNCHANGED <<held, init_calls>>
    /\ UNCHANGED glueRest

\* the POST /pattern of send_vibration_direct is answered or fails: success
\* is what send_pattern returned
send_vibration_direct_answered(c, r) ==
    /\ Waits(c, "send_vibration_direct", "post_wait")
    /\ ToolReturns(c, "send_vibration_direct", frame[c].pre,
                   frame[c].requests, r, SendPatternResult(r), "none",
                   "none")
    /\ UNCHANGED <<controllers, held, init_calls, side_calls>>
    /\ UNCHANGED glueRest

\* the arguments offered to send_arduino_vibration, all of them accepted by
\* SendArduinoVibrationArgs, and as pattern, intensity, duration (seconds)
\* and frequency in the settings of control_vibration: pulse, 0.5, 500 ms,
\* once; fade, 0.35, 1000 ms, twice
SendArgs ==
    {[pattern_type |-> "pulse", intensity |-> Tenths(5), duration_ms |-> 500,
      repeat_count |-> 1],
     [pattern_type |-> "fade", intensity |-> 35 * 100, duration_ms |-> 1000,
      repeat_count |-> 2]}

\* what control_vibration reads from settings that carry none of pattern,
\* intensity, frequency and duration: "pulse", 0.5, 1, int(1 * 1000)
DefaultArgs ==
    [pattern_type |-> "pulse", intensity |-> Tenths(5), duration_ms |-> 1000,
     repeat_count |-> 1]

\* the settings given to control_vibration: vibration_pattern is the index
\* of the dictionary they carry, 0 for settings without one; without one
\* the pattern is made of custom
ControlSettings ==
    {[vibration_enabled |-> FALSE, vibration_pattern |-> 0,
      custom |-> DefaultArgs]}
    \cup {[vibration_enabled |-> TRUE, vibration_pattern |-> 0,
           custom |-> a] : a \in SendArgs \cup {DefaultArgs}}
    \cup {[vibration_enabled |-> TRUE, vibration_pattern |-> n,
           custom |-> DefaultArgs] : n \in 1..Len(WireDicts)}

\* the pattern control_vibration sends for the settings: the one rebuilt
\* from vibration_pattern, or the one of create_custom_pattern
ControlPattern(settings) ==
    IF settings.vibration_pattern /= 0
    THEN Rebuild(WireDicts[settings.vibration_pattern])
    ELSE create_custom_pattern(settings.custom.pattern_type,
                               settings.custom.intensity,
                               settings.custom.duration_ms,
                               settings.custom.repeat_count)

\* control_vibration (vibration_server.py) up to its await: with
\* vibration_enabled false the held controller, if connected, is asked to
\* stop, and arduino_sent is True; otherwise the pattern is rebuilt from
\* vibration_pattern, where a dictionary without steps, or with a step
\* without intensity or duration, raises out of the tool, or made by
\* create_custom_pattern; it goes to send_pattern of a connected held
\* controller, and with no controller or a disconnected one nothing is
\* sent and arduino_sent is False
control_vibration_call(c, settings) ==
    LET enabled == settings.vibration_enabled
        raises == /\ enabled
                  /\ settings.vibration_pattern /= 0
                  /\ RebuildRaises(WireDicts[settings.vibration_pattern])
    IN  /\ Calls(c)
        /\ arduino_initialized = "absent"
        /\ IF raises
           THEN /\ UNCHANGED controllers
                /\ ToolReturns(c, "control_vibration", HeldConnected, <<>>,
                               NoReply, "raised", "True", "none")
           ELSE IF HeldConnected
           THEN /\ controllers' = [controllers EXCEPT
                                      ![held].session = create_session(@)]
                /\ ToolAwaits(c, "control_vibration",
                              IF enabled THEN "post_wait" ELSE "stop_wait",
                              held, TRUE,
                              IF enabled THEN <<"POST /pattern">>
                              ELSE <<"POST /stop">>,
                              NoReply,
                              IF enabled
                              THEN PatternToDict(ControlPattern(settings))
                              ELSE NoBody)
           ELSE /\ UNCHANGED controllers
                /\ ToolReturns(c, "control_vibration", FALSE, <<>>, NoReply,
                               "None", PyBool(enabled),
                               IF enabled THEN "False" ELSE "True")
        /\ UNCHANGED <<held, init_calls>>
        /\ UNCHANGED glueRest

\* the request of control_vibration is answered or fails: what stop()
\* returned is dropped and arduino_sent is True; for a pattern arduino_sent
\* is what send_pattern returned
control_vibration_answered(c, r) ==
    LET enabled == frame[c].pc = "post_wait"
        stopped == Catch(IF TransportFails(r) \/ JsonRaises(r)
                            \/ GetRaises(r)
                         THEN "raised"
                         ELSE PyBool(StopAccepted(r)), "False")
    IN  /\ frame[c].op = "control_vibration"
        /\ frame[c].pc \in {"post_wait", "stop_wait"}
        /\ ToolReturns(c, "control_vibration", frame[c].pre,
                       frame[c].requests, r,
                       IF enabled THEN SendPatternResult(r) ELSE stopped,
                       PyBool(enabled),
                       IF enabled THEN SendPatternResult(r) ELSE "True")
        /\ UNCHANGED <<controllers, held, init_calls, side_calls>>
        /\ UNCHANGED glueRest

\* send_arduino_vibration up to its await: an error without a connected
\* held controller; otherwise the pattern of create_custom_pattern goes to
\* send_pattern, which ensures a session and posts its to_dict
send_arduino_vibration_call(c, a) ==
    /\ Calls(c)
    /\ arduino_initialized = "absent"
    /\ IF HeldConnected
       THEN /\ controllers' = [controllers EXCEPT
                                  ![held].session = create_session(@)]
            /\ ToolAwaits(c, "send_arduino_vibration", "post_wait", held,
                          TRUE, <<"POST /pattern">>, NoReply,
                          PatternToDict(
                              create_custom_pattern(a.pattern_type,
                                                    a.intensity,
                                                    a.duration_ms,
                                                    a.repeat_count)))
       ELSE /\ UNCHANGED controllers
            /\ ToolReturns(c, "send_arduino_vibration", FALSE, <<>>, NoReply,
                           "False", "none", "none")
    /\ UNCHANGED <<held, init_calls>>
    /\ UNCHANGED glueRest

\* the POST /pattern is answered or fails: success is what send_pattern
\* returned
send_arduino_vibration_answered(c, r) ==
    /\ Waits(c, "send_arduino_vibration", "post_wait")
    /\ ToolReturns(c, "send_arduino_vibration", frame[c].pre,
                   frame[c].requests, r, SendPatternResult(r), "none",
                   "none")
    /\ UNCHANGED <<controllers, held, init_calls, side_calls>>
    /\ UNCHANGED glueRest


----------------------------------------------------------------------------
(* The tools of the WiFi vibration server (vibration_server_wifi.py):     *)
(* controllers[i] is the i-th VibrationSensorControllerWiFi they created   *)
(* (is_connected, session and _running of each) and held is the one the   *)
(* process-wide arduino_controller refers to                               *)

\* the actions send_command is called with: the six it routes, and
\* "vibrate" and "stop_vibration", which the server's tools use
WifiActions == {"status", "read_sensor", "calibrate", "set_threshold",
                "start_monitoring", "stop_monitoring", "vibrate",
                "stop_vibration"}

\* the helper send_command hands each action to; any other action is
\* logged as unknown
WifiRoute(action) ==
    CASE action = "status" -> "_get_status"
      [] action = "read_sensor" -> "_read_sensor"
      [] action = "calibrate" -> "_calibrate"
      [] action = "set_threshold" -> "_set_threshold"
      [] action = "start_monitoring" -> "_start_monitoring"
      [] action = "stop_monitoring" -> "_stop_monitoring"
      [] OTHER -> "unknown"

\* the request each helper makes
HelperRequest(helper) ==
    CASE helper = "_get_status" -> "GET /status"
      [] helper = "_read_sensor" -> "GET /sensor"
      [] helper = "_calibrate" -> "POST /calibrate"
      [] helper = "_set_threshold" -> "POST /threshold"

\* result and result.get("success", False) for what send_command returned:
\* None stays None (null in the JSON answer), the get raises on a list, and
\* an object gives its "success", False without one
ReportedSuccess(got) ==
    CASE got.kind = "None" -> "None"
      [] got.kind = "list" -> "raised"
      [] got.status = "success" -> "True"
      [] OTHER -> "False"

\* a 200 answer with the given body
Answer200(body) == [kind |-> "http", status |-> 200, body |-> body]

\* the tool answers success true once connect() returned True: with the
\* status read by send_command({"action": "status"}) on the controller the
\* reference holds by now, which is None without a request when that
\* controller is not connected or has no session, or when its session is
\* closed (the request raises and _get_status returns None)
wifi_initialize_arduino_status(c, ctls, pre, reqs, r) ==
    /\ controllers' = ctls
    /\ IF ctls[held].is_connected /\ ctls[held].session = "open"
       THEN ToolAwaits(c, "wifi_initialize_arduino", "status_wait", held,
                       pre, Append(reqs, "GET /status"), r, NoBody)
       ELSE ToolReturns(c, "wifi_initialize_arduino", pre, reqs, r, "True",
                        "none", "none")

\* the handler of connect() up to the await of session.close(): the session
\* held by now is closed; with none held is_connected is cleared, connect()
\* returns False and the tool answers success false
wifi_initialize_arduino_failed(c, r) ==
    IF controllers[frame[c].ctl].session /= "none"
    THEN /\ controllers' = [controllers EXCEPT
                               ![frame[c].ctl].session = "closed"]
         /\ ToolAwaits(c, "wifi_initialize_arduino", "handler_closing",
                       frame[c].ctl, frame[c].pre,
                       Append(frame[c].requests, "close"), r, NoBody)
    ELSE /\ controllers' = [controllers EXCEPT
                               ![frame[c].ctl].is_connected = FALSE]
         /\ ToolReturns(c, "wifi_initialize_arduino", frame[c].pre,
                        frame[c].requests, r, "False", "none", "none")

\* arduino_controller = VibrationSensorControllerWiFi(...) and connect() up
\* to the await of its status request: the new controller replaces the
\* held one, opens a session and sends GET /status
wifi_initialize_arduino_connect(c, ctls, pre, reqs) ==
    /\ controllers' = Append(ctls, [is_connected |-> FALSE,
                                    session |-> "open", running |-> FALSE])
    /\ held' = Len(ctls) + 1
    /\ ToolAwaits(c, "wifi_initialize_arduino", "get_wait", Len(ctls) + 1,
                  pre, Append(reqs, "GET /status"), NoReply, NoBody)

\* initialize_arduino (WiFi server) up to its first await: a held
\* controller that is connected is disconnected first (_running cleared,
\* no monitoring task to cancel, a held session closed); otherwise the new
\* controller is created at once
wifi_initialize_arduino_call(c) ==
    /\ Calls(c)
    /\ init_calls < MaxInitCalls
    /\ init_calls' = init_calls + 1
    /\ IF HeldConnected
       THEN IF controllers[held].session /= "none"
            THEN /\ controllers' = [controllers EXCEPT
                                       ![held].running = FALSE,
                                       ![held].session = "closed"]
                 /\ UNCHANGED held
                 /\ ToolAwaits(c, "wifi_initialize_arduino", "disconnecting",
                               held, TRUE, <<"close">>, NoReply, NoBody)
            ELSE wifi_initialize_arduino_connect(
                     c, [controllers EXCEPT
                            ![held] = [is_connected |-> FALSE,
                                       session |-> "none",
                                       running |-> FALSE]],
                     TRUE, <<>>)
       ELSE wifi_initialize_arduino_connect(c, controllers, FALSE, <<>>)
    /\ UNCHANGED glueRest

\* after the await of session.close() in disconnect(): the controller
\* drops its session and clears is_connected, and the new controller is
\* created
wifi_initialize_arduino_disconnected(c) ==
    /\ Waits(c, "wifi_initialize_arduino", "disconnecting")
    /\ wifi_initialize_arduino_connect(
           c, [controllers EXCEPT ![frame[c].ctl].is_connected = FALSE,
                                  ![frame[c].ctl].session = "none"],
           frame[c].pre, frame[c].requests)
    /\ UNCHANGED <<init_calls, side_calls>>
    /\ UNCHANGED glueRest

\* the status request of connect() is answered or fails: the body of a 200
\* answer is read next; on another status the session is closed and
\* connect() returns False; a transport failure raises
wifi_initialize_arduino_answered(c, r) ==
    /\ Waits(c, "wifi_initialize_arduino", "get_wait")
    /\ IF r.kind = "http" /\ r.status = 200
       THEN /\ ToolAwaits(c, "wifi_initialize_arduino", "json_wait",
                          frame[c].ctl, frame[c].pre, frame[c].requests,
                          NoReply, NoBody)
            /\ UNCHANGED controllers
       ELSE IF r.kind = "http" /\ controllers[frame[c].ctl].session /= "none"
            THEN /\ controllers' = [controllers EXCEPT
                                       ![frame[c].ctl].session = "closed"]
                 /\ ToolAwaits(c, "wifi_initialize_arduino", "closing",
                               frame[c].ctl, frame[c].pre,
                               Append(frame[c].requests, "close"), r, NoBody)
            ELSE wifi_initialize_arduino_failed(c, r)
    /\ UNCHANGED <<held, init_calls, side_calls>>
    /\ UNCHANGED glueRest

\* the body of the 200 answer is read and decoded: status "online"
\* connects the controller that was probed and the tool goes on to
\* calibrate_sensor() on the controller the reference holds by now
\* (_calibrate posts on the session without testing is_connected; with no
\* session, or a closed one, the post raises, _calibrate returns None and
\* the tool goes on to the status); another status runs off the end of
\* connect() (None) with the session left open, and the tool answers
\* success false; a body that is not JSON, or not an object, raises
wifi_initialize_arduino_decoded(c, body) ==
    /\ Waits(c, "wifi_initialize_arduino", "json_wait")
    /\ IF body \in {"nonjson", "array", "null"}
       THEN wifi_initialize_arduino_failed(c, Answer200(body))
       ELSE IF body = "online"
       THEN LET ctls == [controllers EXCEPT
                            ![frame[c].ctl].is_connected = TRUE,
                            ![frame[c].ctl].running = TRUE]
            IN  IF ctls[held].session = "open"
                THEN /\ controllers' = ctls
                     /\ ToolAwaits(c, "wifi_initialize_arduino",
                                   "calibrate_wait", held, frame[c].pre,
                                   Append(frame[c].requests,
                                          "POST /calibrate"),
                                   Answer200(body), NoBody)
                ELSE wifi_initialize_arduino_status(
                         c, ctls, frame[c].pre, frame[c].requests,
                         Answer200(body))
       ELSE /\ UNCHANGED controllers
            /\ ToolReturns(c, "wifi_initialize_arduino", frame[c].pre,
                           frame[c].requests, Answer200(body), "False", "none",
                           "none")
    /\ UNCHANGED <<held, init_calls, side_calls>>
    /\ UNCHANGED glueRest

\* after the await of session.close() in connect(): False, the handler
\* clearing is_connected first; the tool answers success false
wifi_initialize_arduino_closed(c) ==
    /\ frame[c].op = "wifi_initialize_arduino"
    /\ frame[c].pc \in {"closing", "handler_closing"}
    /\ controllers' = IF frame[c].pc = "handler_closing"
                      THEN [controllers EXCEPT
                               ![frame[c].ctl].is_connected = FALSE]
                      ELSE controllers
    /\ ToolReturns(c, "wifi_initialize_arduino", frame[c].pre,
                   frame[c].requests, frame[c].reply, "False", "none",
                   "none")
    /\ UNCHANGED <<held, init_calls, side_calls>>
    /\ UNCHANGED glueRest

\* the POST /calibrate is answered or fails: the body of a 200 answer is
\* read next; otherwise _calibrate returns None and the tool goes on to the
\* status
wifi_initialize_arduino_calibrated(c, r) ==
    /\ Waits(c, "wifi_initialize_arduino", "calibrate_wait")
    /\ IF r.kind = "http" /\ r.status = 200
       THEN /\ ToolAwaits(c, "wifi_initialize_arduino", "calibrate_json",
                          frame[c].ctl, frame[c].pre, frame[c].requests,
                          NoReply, NoBody)
            /\ UNCHANGED controllers
       ELSE wifi_initialize_arduino_status(c, controllers, frame[c].pre,
                                           frame[c].requests, r)
    /\ UNCHANGED <<held, init_calls, side_calls>>
    /\ UNCHANGED glueRest

\* the body of the calibrate answer is decoded: on a JSON array
\* result.get raises out of calibrate_sensor and the tool answers success
\* false; otherwise the tool goes on to the status
wifi_initialize_arduino_calibrate_decoded(c, body) ==
    /\ Waits(c, "wifi_initialize_arduino", "calibrate_json")
    /\ IF body = "array"
       THEN /\ UNCHANGED controllers
            /\ ToolReturns(c, "wifi_initialize_arduino", frame[c].pre,
                           frame[c].requests, Answer200(body), "False", "none",
                           "none")
       ELSE wifi_initialize_arduino_status(c, controllers, frame[c].pre,
                                           frame[c].requests, Answer200(body))
    /\ UNCHANGED <<held, init_calls, side_calls>>
    /\ UNCHANGED glueRest

\* the last GET /status is answered or fails: the body of a 200 answer is
\* read next; otherwise the status is None and the tool answers success
\* true
wifi_initialize_arduino_status_answered(c, r) ==
    /\ Waits(c, "wifi_initialize_arduino", "status_wait")
    /\ IF r.kind = "http" /\ r.status = 200
       THEN ToolAwaits(c, "wifi_initialize_arduino", "status_json",
                       frame[c].ctl, frame[c].pre, frame[c].requests,
                       NoReply, NoBody)
       ELSE ToolReturns(c, "wifi_initialize_arduino", frame[c].pre,
                        frame[c].requests, r, "True", "none", "none")
    /\ UNCHANGED <<controllers, held, init_calls, side_calls>>
    /\ UNCHANGED glueRest

\* the body of the status answer is decoded, or is not JSON and the status
\* is None: the tool answers success true
wifi_initialize_arduino_status_decoded(c, body) ==
    /\ Waits(c, "wifi_initialize_arduino", "status_json")
    /\ ToolReturns(c, "wifi_initialize_arduino", frame[c].pre,
                   frame[c].requests, Answer200(body), "True", "none", "none")
    /\ UNCHANGED <<controllers, held, init_calls, side_calls>>
    /\ UNCHANGED glueRest

\* send_command on the held controller with an action it does not route:
\* None at once, without a request, also on a connected controller
UnknownAction(action) ==
    IF WifiRoute(action) = "unknown"
    THEN [kind |-> "None", status |-> "none"]
    ELSE [kind |-> "dict", status |-> "success"]

\* control_vibration (WiFi server): with vibration_enabled false a connected
\* controller is sent {"action": "stop_vibration"} and the answer carries
\* arduino_sent True; otherwise the settings are read first, and a missing
\* pattern, intensity, frequency or duration raises KeyError out of the
\* tool; then, without a connected controller the answer is an error
\* without arduino_sent, and with one the pattern is sent as
\* {"action": "vibrate"} and arduino_sent is
\* arduino_response and arduino_response.get("success", False), False when
\* that raises.  Neither action is routed, so the call never awaits
wifi_control_vibration(c, enabled, complete) ==
    LET action == IF enabled THEN "vibrate" ELSE "stop_vibration"
        sent == IF ~enabled THEN "True"
                ELSE IF ~complete THEN "none"
                ELSE IF HeldConnected
                THEN Catch(ReportedSuccess(UnknownAction(action)), "False")
                ELSE "absent"
    IN  /\ Calls(c)
        /\ WifiRoute(action) = "unknown"
        /\ ToolReturns(c, "wifi_control_vibration", HeldConnected, <<>>,
                       NoReply,
                       IF enabled /\ ~complete THEN "raised"
                       ELSE IF sent = "absent" THEN "False" ELSE sent,
                       PyBool(enabled), sent)
        /\ UNCHANGED <<controllers, held, init_calls>>
        /\ UNCHANGED glueRest

\* send_arduino_vibration (WiFi server): an error without a connected
\* controller; otherwise the pattern is sent as {"action": "vibrate"} and
\* success is true when result and result.get("success", False), false
\* when that raises
wifi_send_arduino_vibration(c) ==
    /\ Calls(c)
    /\ WifiRoute("vibrate") = "unknown"
    /\ ToolReturns(c, "wifi_send_arduino_vibration", HeldConnected, <<>>,
                   NoReply,
                   IF /\ HeldConnected
                      /\ Catch(ReportedSuccess(UnknownAction("vibrate")),
                               "False") = "True"
                   THEN "True" ELSE "False",
                   "none", "none")
    /\ UNCHANGED <<controllers, held, init_calls>>
    /\ UNCHANGED glueRest

----------------------------------------------------------------------------
(* Monitoring on VibrationSensorControllerWiFi: the _monitor_loop tasks    *)
(* take their steps between the calls and during them.  A call that awaits *)
(* a cancelled task resumes once that task is done; awaiting a task that   *)
(* is done already does not suspend the call.                              *)

\* _monitoring_task = None, no callback is registered and none has run
MonNew ==
    /\ mon_tasks = <<>>
    /\ mon_task = 0
    /\ mon_callbacks = 0
    /\ callbacks = <<>>
    /\ sensor_threshold = 100
    /\ mon_stopped = FALSE

\* what a step of a _monitor_loop task leaves alone
monRest == <<wifiRest, frame, side_calls, ret, pre_connected, reply,
             requests, sent_pattern, last_sent, op, wifi_connected,
             wifi_session, wifi_running, mon_task, callbacks,
             sensor_threshold, mon_stopped>>

\* what a long-polling request of the loop meets: 200, 204, another status,
\* a timeout, or another exception (connection refused)
MonReplies == {"data", "no_data", "error", "timeout", "raised"}

\* the body of a 200 answer of GET /monitor: an object whose value is 125
\* ("high"), 75 ("low"), text ("text") or missing ("absent"), a JSON array,
\* null, or a body that is not JSON
MonBodies == {"high", "low", "text", "absent", "array", "null", "nonjson"}

\* data.get("value", 0)
SensorValue(body) ==
    CASE body = "high" -> 125
      [] body = "low" -> 75
      [] OTHER -> 0

\* the kinds of callback: a plain callable, or a coroutine function that
\* waits before it returns (one that returns without waiting runs like a
\* plain callable)
CallbackKinds == {"plain", "coroutine"}

\* a task that has not finished: created and not yet run, waiting for the
\* answer of GET /monitor or for its body, waiting in a callback, sleeping
\* after a failure, sleeping at the end of a pass of the serial read loop
\* ("running"), or cancelled without the cancellation delivered yet
Alive(st) == st \in {"created", "polling", "reading", "callback",
                     "sleeping", "running", "cancelling"}

DoneAlways(st) == TRUE

\* Task.done(): await task returns (or raises CancelledError) once it is
Done(st) == st \in {"finished", "cancelled"}

\* Task.cancel(): a task that is not done is asked to cancel
Cancel(st) == IF Alive(st) THEN "cancelling" ELSE st

\* while self._running and self.is_connected, then the request: a session
\* that is closed or missing raises, the handler logs and sleeps
LoopTop ==
    IF ~(wifi_running /\ wifi_connected) THEN "finished"
    ELSE IF wifi_session = "open" THEN "polling" ELSE "sleeping"

\* asyncio.create_task(self._monitor_loop())
CreateTask(tasks) == Append(tasks, [st |-> "created", cb |-> 0])

\* the task starts, or wakes from its sleep, and evaluates the loop
\* condition
mon_loop_check(i) ==
    /\ i <= Len(mon_tasks)
    /\ mon_tasks[i].st \in {"created", "sleeping"}
    /\ mon_tasks' = [mon_tasks EXCEPT ![i] = [st |-> LoopTop, cb |-> 0]]
    /\ UNCHANGED mon_callbacks
    /\ UNCHANGED monRest

\* the long-polling request is answered: the body of a 200 answer is read
\* next; on 204 and on a timeout the loop goes round; another status, or
\* another exception, makes it sleep
mon_loop_answered(i, k) ==
    /\ i <= Len(mon_tasks)
    /\ mon_tasks[i].st = "polling"
    /\ mon_tasks' = [mon_tasks EXCEPT
                       ![i] = [st |-> CASE k = "data" -> "reading"
                                        [] k \in {"error", "raised"} ->
                                             "sleeping"
                                        [] OTHER -> LoopTop,
                               cb |-> 0]]
    /\ UNCHANGED mon_callbacks
    /\ UNCHANGED monRest

\* for callback in self.callbacks, from the j-th on: a plain callable is
\* called, a coroutine awaited; n callbacks were called so far, and the
\* plain callable at index raising raises.  The loop of the callbacks ends
\* waiting in a coroutine, in the handler of _monitor_loop (which logs and
\* sleeps), or with the list ("round": the monitor loop goes round)
RECURSIVE RunCallbacks(_, _, _)
RunCallbacks(j, n, raising) ==
    IF j > Len(callbacks) THEN [st |-> "round", cb |-> 0, n |-> n]
    ELSE IF callbacks[j] = "coroutine"
    THEN [st |-> "callback", cb |-> j, n |-> n + 1]
    ELSE IF j = raising THEN [st |-> "sleeping", cb |-> 0, n |-> n + 1]
    ELSE RunCallbacks(j + 1, n + 1, raising)

\* the task goes on after the callbacks called in this step
AfterCallbacks(i, run) ==
    /\ mon_callbacks + run.n <= MaxCallbacks
    /\ mon_callbacks' = mon_callbacks + run.n
    /\ mon_tasks' = [mon_tasks EXCEPT
                       ![i] = [st |-> IF run.st = "round" THEN LoopTop
                                      ELSE run.st,
                               cb |-> run.cb]]

\* the body is read and handed to _handle_sensor_broadcast: a body that is
\* not JSON, or not an object, or whose value does not compare with a
\* number, raises and the loop sleeps; a value above the threshold calls
\* the callbacks; otherwise the loop goes round
mon_loop_decoded(i, body, raising) ==
    /\ i <= Len(mon_tasks)
    /\ mon_tasks[i].st = "reading"
    /\ IF body \in {"nonjson", "array", "null", "text"}
       THEN /\ mon_tasks' = [mon_tasks EXCEPT
                               ![i] = [st |-> "sleeping", cb |-> 0]]
            /\ UNCHANGED mon_callbacks
       ELSE IF SensorValue(body) > sensor_threshold
       THEN AfterCallbacks(i, RunCallbacks(1, 0, raising))
       ELSE /\ mon_tasks' = [mon_tasks EXCEPT
                               ![i] = [st |-> LoopTop, cb |-> 0]]
            /\ UNCHANGED mon_callbacks
    /\ UNCHANGED monRest

\* the coroutine callback the task waits in returns, and the callbacks after
\* it are called, or it raises and the loop sleeps
mon_callback_done(i, raised, raising) ==
    /\ i <= Len(mon_tasks)
    /\ mon_tasks[i].st = "callback"
    /\ IF raised
       THEN /\ mon_tasks' = [mon_tasks EXCEPT
                               ![i] = [st |-> "sleeping", cb |-> 0]]
            /\ UNCHANGED mon_callbacks
       ELSE AfterCallbacks(i, RunCallbacks(mon_tasks[i].cb + 1, 0, raising))
    /\ UNCHANGED monRest

\* CancelledError is raised in the task where it waits; nothing in the
\* loop catches it
mon_loop_cancelled(i) ==
    /\ i <= Len(mon_tasks)
    /\ mon_tasks[i].st = "cancelling"
    /\ mon_tasks' = [mon_tasks EXCEPT ![i] = [st |-> "cancelled", cb |-> 0]]
    /\ UNCHANGED mon_callbacks
    /\ UNCHANGED monRest

\* add_vibration_callback: the callback is appended to the list
add_vibration_callback(kind) ==
    /\ Len(callbacks) < MaxListeners
    /\ callbacks' = Append(callbacks, kind)
    /\ UNCHANGED <<mon_tasks, mon_task, mon_callbacks, sensor_threshold,
                   mon_stopped>>
    /\ UNCHANGED <<callVars, ctlVars, genVars, chatVars, initVars, serVars>>

\* the call of task c ends; what it returns is not recorded
Ends(c, o) ==
    /\ frame' = [frame EXCEPT ![c] = IdleFrame]
    /\ op' = o
    /\ last_sent' = NowSent(c)
    /\ UNCHANGED <<pre_connected, requests, reply, ret, sent_pattern>>

\* a call begins in its turn: the main task makes its calls one after the
\* other, and the side task makes the calls that begin while a
\* start_monitoring of the main task stands in its keep-alive loop
InTurn(c) ==
    IF c = MainCaller
    THEN \/ frame[SideCaller] = IdleFrame
         \/ Waits(SideCaller, "start_monitoring", "keeping")
    ELSE Waits(MainCaller, "start_monitoring", "keeping")

\* self._monitoring_task.cancel(), with a task held
CancelHeld ==
    IF mon_task = 0 THEN mon_tasks
    ELSE [mon_tasks EXCEPT ![mon_task].st = Cancel(@)]

\* await self._monitoring_task returns at once: no task is held, or the
\* held one is done
HeldDone(tasks) == mon_task = 0 \/ Done(tasks[mon_task].st)

\* _start_monitoring from the creation of the task on.  Through
\* send_command its result is returned; start_monitoring itself then sleeps
\* while the controller is connected and the held task is not done
start_monitoring_created(c, o, pre, tasks) ==
    /\ mon_tasks' = CreateTask(tasks)
    /\ mon_task' = Len(tasks) + 1
    /\ IF o = "wifi_send_command"
       THEN Returns(c, o, pre, <<>>, NoReply, "dict")
       ELSE IF wifi_connected
       THEN AwaitsWith(c, o, "keeping", pre, <<>>, NoReply, 0)
       ELSE Ends(c, o)

\* _start_monitoring: a held task is cancelled and awaited, then the new
\* task is created and held
start_monitoring_begin(c, o) ==
    /\ Len(mon_tasks) < MaxTasks
    /\ mon_stopped' = FALSE
    /\ IF HeldDone(CancelHeld)
       THEN start_monitoring_created(c, o, wifi_connected, CancelHeld)
       ELSE /\ mon_tasks' = CancelHeld
            /\ AwaitsWith(c, o, "start_wait", wifi_connected, <<>>, NoReply,
                          mon_task)
            /\ UNCHANGED mon_task

\* _stop_monitoring from the return of its await on: _monitoring_task =
\* None
stop_monitoring_end(c, o, pre) ==
    /\ mon_task' = 0
    /\ mon_stopped' = TRUE
    /\ IF o = "wifi_send_command"
       THEN Returns(c, o, pre, <<>>, NoReply, "dict")
       ELSE Ends(c, o)

\* _stop_monitoring: a held task is cancelled and awaited; without one
\* nothing is done
stop_monitoring_begin(c, o) ==
    IF HeldDone(CancelHeld)
    THEN /\ mon_tasks' = CancelHeld
         /\ stop_monitoring_end(c, o, wifi_connected)
    ELSE /\ mon_tasks' = CancelHeld
         /\ AwaitsWith(c, o, "stop_wait", wifi_connected, <<>>, NoReply,
                       mon_task)
         /\ UNCHANGED <<mon_task, mon_stopped>>

\* start_monitoring up to its first await
mon_start_call(c) ==
    /\ Calls(c)
    /\ start_monitoring_begin(c, "start_monitoring")
    /\ UNCHANGED <<mon_callbacks, callbacks, sensor_threshold>>
    /\ UNCHANGED <<wifi_connected, wifi_session, wifi_running>>
    /\ UNCHANGED wifiRest

\* the task awaited by _start_monitoring is done: the new task is created
\* and held
mon_start_resume(c) ==
    /\ frame[c].op \in {"start_monitoring", "wifi_send_command"}
    /\ frame[c].pc = "start_wait"
    /\ Done(mon_tasks[frame[c].value].st)
    /\ Len(mon_tasks) < MaxTasks
    /\ start_monitoring_created(c, frame[c].op, frame[c].pre, mon_tasks)
    /\ UNCHANGED <<mon_callbacks, callbacks, sensor_threshold, mon_stopped,
                   side_calls>>
    /\ UNCHANGED <<wifi_connected, wifi_session, wifi_running>>
    /\ UNCHANGED wifiRest

\* start_monitoring wakes from its sleep: it sleeps again while the
\* controller is connected and the held task is not done, and returns
\* otherwise
mon_start_wake(c) ==
    /\ Waits(c, "start_monitoring", "keeping")
    /\ IF wifi_connected /\ ~HeldDone(mon_tasks)
       THEN UNCHANGED <<callVars, op, ret, pre_connected, reply, requests>>
       ELSE /\ Ends(c, "start_monitoring")
            /\ UNCHANGED side_calls
    /\ UNCHANGED monVars
    /\ UNCHANGED <<wifi_connected, wifi_session, wifi_running>>
    /\ UNCHANGED wifiRest

\* stop_monitoring up to its await
mon_stop_call(c) ==
    /\ Calls(c)
    /\ stop_monitoring_begin(c, "stop_monitoring")
    /\ UNCHANGED <<mon_callbacks, callbacks, sensor_threshold>>
    /\ UNCHANGED <<wifi_connected, wifi_session, wifi_running>>
    /\ UNCHANGED wifiRest

\* the task awaited by _stop_monitoring is done
mon_stop_resume(c) ==
    /\ frame[c].op \in {"stop_monitoring", "wifi_send_command"}
    /\ frame[c].pc = "stop_wait"
    /\ Done(mon_tasks[frame[c].value].st)
    /\ stop_monitoring_end(c, frame[c].op, frame[c].pre)
    /\ UNCHANGED <<mon_tasks, mon_callbacks, callbacks, sensor_threshold,
                   side_calls>>
    /\ UNCHANGED <<wifi_connected, wifi_session, wifi_running>>
    /\ UNCHANGED wifiRest

\* disconnect() from its session check on, up to the await of
\* session.close(): a held session is closed; with none held is_connected
\* is cleared and the call returns
wifi_close_session(c, pre) ==
    IF wifi_session /= "none"
    THEN /\ wifi_session' = "closed"
         /\ AwaitsWith(c, "wifi_disconnect", "closing", pre, <<"close">>,
                       NoReply, 0)
         /\ UNCHANGED <<wifi_connected, mon_stopped>>
    ELSE /\ wifi_connected' = FALSE
         /\ mon_stopped' = TRUE
         /\ Returns(c, "wifi_disconnect", pre, <<>>, NoReply, "None")
         /\ UNCHANGED wifi_session

\* disconnect() up to its first await: _running is cleared and a held task
\* cancelled and awaited; then it goes on to the session
wifi_disconnect_call(c) ==
    /\ Calls(c)
    /\ wifi_running' = FALSE
    /\ mon_tasks' = CancelHeld
    /\ IF HeldDone(CancelHeld)
       THEN wifi_close_session(c, wifi_connected)
       ELSE /\ AwaitsWith(c, "wifi_disconnect", "task_wait", wifi_connected,
                          <<>>, NoReply, mon_task)
            /\ UNCHANGED <<wifi_connected, wifi_session, mon_stopped>>
    /\ UNCHANGED <<mon_task, mon_callbacks, callbacks, sensor_threshold>>
    /\ UNCHANGED wifiRest

\* the awaited task is done: disconnect() goes on to the session;
\* _monitoring_task is kept
wifi_disconnect_resume(c) ==
    /\ Waits(c, "wifi_disconnect", "task_wait")
    /\ Done(mon_tasks[frame[c].value].st)
    /\ wifi_close_session(c, frame[c].pre)
    /\ UNCHANGED <<mon_tasks, mon_task, mon_callbacks, callbacks,
                   sensor_threshold>>
    /\ UNCHANGED <<wifi_running, side_calls>>
    /\ UNCHANGED wifiRest

\* after the await of session.close(): self.session = None and
\* is_connected = False
wifi_disconnect_closed(c) ==
    /\ Waits(c, "wifi_disconnect", "closing")
    /\ wifi_session' = "none"
    /\ wifi_connected' = FALSE
    /\ mon_stopped' = TRUE
    /\ Returns(c, "wifi_disconnect", frame[c].pre, frame[c].requests,
               NoReply, "None")
    /\ UNCHANGED <<mon_tasks, mon_task, mon_callbacks, callbacks,
                   sensor_threshold>>
    /\ UNCHANGED <<wifi_running, side_calls>>
    /\ UNCHANGED wifiRest

\* the commands send_command is given: one of each action, without a
\* "value", and set_threshold with the value 50
WifiCommands ==
    [action : WifiActions, keys : {{}}, value : {0}]
    \cup {[action |-> "set_threshold", keys |-> {"value"}, value |-> 50]}

\* send_command up to its first await: None without a connection or a
\* session, and for an unknown action; _start_monitoring and
\* _stop_monitoring handle the task; a helper that makes a request raises
\* on a closed session before anything is sent, and its handler returns
\* None
wifi_send_command_call(c, command) ==
    LET helper == WifiRoute(command.action) IN
        /\ Calls(c)
        /\ IF ~wifi_connected \/ wifi_session = "none" \/ helper = "unknown"
           THEN /\ Returns(c, "wifi_send_command", wifi_connected, <<>>,
                           NoReply, "None")
                /\ UNCHANGED <<mon_tasks, mon_task, mon_stopped>>
           ELSE IF helper = "_start_monitoring"
           THEN start_monitoring_begin(c, "wifi_send_command")
           ELSE IF helper = "_stop_monitoring"
           THEN stop_monitoring_begin(c, "wifi_send_command")
           ELSE /\ IF wifi_session = "open"
                   THEN AwaitsWith(c, "wifi_send_command", "request_wait",
                                   TRUE, <<HelperRequest(helper)>>, NoReply,
                                   IF "value" \in command.keys
                                   THEN command.value ELSE 100)
                   ELSE Returns(c, "wifi_send_command", TRUE, <<>>, NoReply,
                                "None")
                /\ UNCHANGED <<mon_tasks, mon_task, mon_stopped>>
        /\ UNCHANGED <<mon_callbacks, callbacks, sensor_threshold>>
        /\ UNCHANGED <<wifi_connected, wifi_session, wifi_running>>
        /\ UNCHANGED wifiRest

\* the request of the helper is answered or fails: the body of a 200 answer
\* is read next; otherwise the helper returns None
wifi_send_command_answered(c, r) ==
    /\ Waits(c, "wifi_send_command", "request_wait")
    /\ IF r.kind = "http" /\ r.status = 200
       THEN Awaits(c, "wifi_send_command", "json_wait", frame[c].pre,
                   frame[c].requests, NoReply)
       ELSE Returns(c, "wifi_send_command", frame[c].pre, frame[c].requests,
                    r, "None")
    /\ UNCHANGED <<monVars, side_calls>>
    /\ UNCHANGED <<wifi_connected, wifi_session, wifi_running>>
    /\ UNCHANGED wifiRest

\* the decoded body is returned, whatever JSON value it is; a body that is
\* not JSON raises and the helper returns None.  _set_threshold takes the
\* threshold it posted when result.get("success") is true, and returns None
\* when the get raises
wifi_send_command_decoded(c, body) ==
    LET st == StatusOf(Answer200(body))
        posted == frame[c].requests = <<"POST /threshold">>
    IN  /\ Waits(c, "wifi_send_command", "json_wait")
        /\ sensor_threshold' = IF posted /\ st.kind = "dict"
                                  /\ st.status = "success"
                               THEN frame[c].value ELSE sensor_threshold
        /\ Returns(c, "wifi_send_command", frame[c].pre, frame[c].requests,
                   Answer200(body),
                   IF posted /\ st.kind = "list" THEN "None" ELSE st.kind)
        /\ UNCHANGED <<mon_tasks, mon_task, mon_callbacks, callbacks,
                       mon_stopped, side_calls>>
        /\ UNCHANGED <<wifi_connected, wifi_session, wifi_running>>
        /\ UNCHANGED wifiRest

\* the answers the device gives to the requests of connect() and of
\* send_command: none in time, 200, and 404
MonAnswers ==
    {r \in Replies :
        \/ r.kind = "timeout"
        \/ r.status = 200 /\ r.body = "online"
        \/ r.status = 404 /\ r.body = "error"}

\* the bodies of the 200 answers to connect(): the status "online", another
\* status, and text that is not JSON
ConnectBodies == {"online", "ready", "nonjson"}

\* the bodies of the 200 answers to send_command: an object with "success"
\* true, an object without it, a JSON array, and text that is not JSON
CommandBodies == {"success", "online", "array", "nonjson"}

\* set_threshold (given 50), calibrate_sensor and read_sensor_data called on
\* the controller itself
WifiMethods ==
    {[method |-> "wifi_set_threshold", threshold |-> 50],
     [method |-> "wifi_calibrate_sensor", threshold |-> 0],
     [method |-> "wifi_read_sensor_data", threshold |-> 0]}

\* the helper each of them calls
MethodHelper(o) ==
    CASE o = "wifi_set_threshold" -> "_set_threshold"
      [] o = "wifi_calibrate_sensor" -> "_calibrate"
      [] o = "wifi_read_sensor_data" -> "_read_sensor"

\* what the method makes of the None of its helper: read_sensor_data
\* returns None, the two others False
MethodNone(o) == IF o = "wifi_read_sensor_data" THEN "None" ELSE "False"

\* the bodies of the 200 answers to these methods: those given to
\* send_command, and an object with a "value"
MethodBodies == CommandBodies \cup {"value"}

\* what the method makes of the decoded body got of a 200 answer.
\* read_sensor_data returns the data of an object that holds a "value".
\* _set_threshold returns None when its get raises; set_threshold and
\* calibrate_sensor return result.get("success", False) of what the helper
\* returned, which raises on the list _calibrate hands back
MethodReturn(o, got) ==
    CASE o = "wifi_read_sensor_data" ->
             IF got.kind = "dict" /\ got.status = "value" THEN "data"
             ELSE "None"
      [] got.kind = "None" -> "False"
      [] got.kind = "list" ->
             IF o = "wifi_calibrate_sensor" THEN "raised" ELSE "False"
      [] OTHER -> PyBool(got.status = "success")

\* set_threshold, calibrate_sensor or read_sensor_data up to its first
\* await.  read_sensor_data returns None without a connection or a
\* session; the two others call their helper whatever the connection is.
\* The helper raises without a session, and on a closed one before
\* anything is sent, and its handler returns None
wifi_method_call(c, m) ==
    /\ Calls(c)
    /\ IF /\ wifi_session = "open"
          /\ m.method = "wifi_read_sensor_data" => wifi_connected
       THEN AwaitsWith(c, m.method, "request_wait", wifi_connected,
                       <<HelperRequest(MethodHelper(m.method))>>, NoReply,
                       m.threshold)
       ELSE Returns(c, m.method, wifi_connected, <<>>, NoReply,
                    MethodNone(m.method))
    /\ UNCHANGED monVars
    /\ UNCHANGED <<wifi_connected, wifi_session, wifi_running>>
    /\ UNCHANGED wifiRest

\* the request of the helper is answered or fails: the body of a 200 answer
\* is read next; otherwise the helper returns None
wifi_method_answered(c, r) ==
    /\ frame[c].op \in {m.method : m \in WifiMethods}
    /\ frame[c].pc = "request_wait"
    /\ IF r.kind = "http" /\ r.status = 200
       THEN Awaits(c, frame[c].op, "json_wait", frame[c].pre,
                   frame[c].requests, NoReply)
       ELSE Returns(c, frame[c].op, frame[c].pre, frame[c].requests, r,
                    MethodNone(frame[c].op))
    /\ UNCHANGED <<monVars, side_calls>>
    /\ UNCHANGED <<wifi_connected, wifi_session, wifi_running>>
    /\ UNCHANGED wifiRest

\* the body is decoded; one that is not JSON raises and the helper returns
\* None.  _set_threshold takes the threshold it posted when
\* result.get("success") is true
wifi_method_decoded(c, body) ==
    LET got == StatusOf(Answer200(body))
    IN  /\ frame[c].op \in {m.method : m \in WifiMethods}
        /\ frame[c].pc = "json_wait"
        /\ sensor_threshold' = IF /\ frame[c].op = "wifi_set_threshold"
                                  /\ got.kind = "dict"
                                  /\ got.status = "success"
                               THEN frame[c].value ELSE sensor_threshold
        /\ Returns(c, frame[c].op, frame[c].pre, frame[c].requests,
                   Answer200(body), MethodReturn(frame[c].op, got))
        /\ UNCHANGED <<mon_tasks, mon_task, mon_callbacks, callbacks,
                       mon_stopped, side_calls>>
        /\ UNCHANGED <<wifi_connected, wifi_session, wifi_running>>
        /\ UNCHANGED wifiRest

----------------------------------------------------------------------------
(* VibrationSensorController (serial, vibration_sensor_controller.py): its *)
(* methods run until they await; the calls of the other task, the device,  *)
(* the tasks and the timers of the event loop take their steps meanwhile,  *)
(* one at a time.  asyncio.wait_for runs the Queue.get it is given as a    *)
(* task of its own: the caller wakes once that task is done or the         *)
(* timeout has passed, and after a timeout it cancels the task and awaits  *)
(* its end before TimeoutError is raised                                   *)

\* what the device writes, a line each: {"status": "online"}, an object
\* with another status, {"success": true}, a sensor broadcast (type
\* "sensor_data", value 125), a JSON value that is not an object and is
\* true in a test ("array": [1]), null, a value that is not an object and
\* is false in a test ("emptylist": []), or a line that is not JSON
SerialLines == {"online", "busy", "success", "sensor_data", "array",
                "null", "emptylist", "garbage"}

\* what one connect() call meets: no port given and none detected, a port
\* that serial.Serial fails to open, or an opened port
SerialOutcomes == {"no_port", "open_fails", "opened"}

\* send_command and the methods built on it, with the action each writes;
\* value is the threshold given to set_threshold
SerialCommands ==
    {[method |-> "serial_send_command", action |-> "status", value |-> 0],
     [method |-> "serial_read_sensor_data", action |-> "read_sensor",
      value |-> 0],
     [method |-> "serial_set_threshold", action |-> "set_threshold",
      value |-> 150],
     [method |-> "serial_calibrate_sensor", action |-> "calibrate",
      value |-> 0],
     [method |-> "serial_start_monitoring", action |-> "start_monitoring",
      value |-> 0],
     [method |-> "serial_stop_monitoring", action |-> "stop_monitoring",
      value |-> 0]}

\* no wait_for is in progress: there is no Queue.get task
NoGet == [st |-> "none", item |-> "None"]

\* VibrationSensorController.__init__ with no port given
SerialNew ==
    /\ ser_port = FALSE
    /\ ser_connection = "none"
    /\ ser_buffer = <<>>
    /\ ser_queue = <<>>
    /\ ser_turns = [c \in Callers |-> 0]
    /\ ser_get = [c \in Callers |-> NoGet]
    /\ ser_getters = <<>>
    /\ ser_connected = FALSE
    /\ ser_running = FALSE
    /\ ser_tasks = <<>>
    /\ ser_read_task = 0
    /\ ser_callbacks = <<>>
    /\ ser_threshold = 100

\* what a step of the serial controller leaves alone
serRest == <<genVars, chatVars, initVars, monVars, is_connected, session,
             wifi_connected, wifi_session, wifi_running, history, live>>

\* the Queue.get tasks and the getters of the queue
serGets == <<ser_get, ser_getters>>

\* the call of task c stands at the await `at` of a method of the serial
\* controller
SerialWaits(c, at) ==
    /\ frame[c].pc = at
    /\ frame[c].op \in {"serial_connect", "serial_disconnect"}
                       \cup {command.method : command \in SerialCommands}

\* the callbacks of _handle_sensor_broadcast from the j-th on: a plain
\* callable is called, and the one that raises ends the iteration of the
\* read loop in its handler; a coroutine function is awaited
RECURSIVE Broadcast(_, _)
Broadcast(j, raising) ==
    IF j > Len(ser_callbacks) THEN [st |-> "running", cb |-> 0]
    ELSE IF ser_callbacks[j] = "coroutine" THEN [st |-> "callback", cb |-> j]
    ELSE IF j = raising THEN [st |-> "sleeping", cb |-> 0]
    ELSE Broadcast(j + 1, raising)

\* message.get raises on a line that is JSON and not an object
NotObject(line) == line \in {"array", "null", "emptylist"}

\* the lines of the buffer of _serial_read_loop, in order: a line that is
\* not JSON is logged and dropped, every other one is put on _read_queue; a
\* sensor broadcast above the threshold goes to the callbacks; message.get
\* raises on a line that is not an object, and the lines after it stay in
\* the buffer
RECURSIVE ReadLines(_, _, _)
ReadLines(lines, queue, raising) ==
    IF lines = <<>>
    THEN [st |-> "running", cb |-> 0, buffer |-> <<>>, queue |-> queue]
    ELSE LET line == Head(lines)
             put == Append(queue, line)
             b == IF /\ line = "sensor_data"
                     /\ SensorValue("high") > ser_threshold
                  THEN Broadcast(1, raising)
                  ELSE [st |-> "running", cb |-> 0]
         IN  CASE line = "garbage" -> ReadLines(Tail(lines), queue, raising)
               [] NotObject(line) ->
                      [st |-> "sleeping", cb |-> 0, buffer |-> Tail(lines),
                       queue |-> put]
               [] b.st /= "running" ->
                      [st |-> b.st, cb |-> b.cb, buffer |-> Tail(lines),
                       queue |-> put]
               [] OTHER -> ReadLines(Tail(lines), put, raising)

\* one step of a _serial_read_loop task t, the port holding the lines
\* port: a cancelled task ends; a task waiting in a callback goes on with
\* the callbacks after it and the lines left, or to its handler when the
\* callback raised; a task that has not run yet, or whose sleep is over (at
\* the end of a pass, "running", or in the handler, "sleeping"), is at the
\* top of its loop: it ends when the loop condition fails, and otherwise
\* reads what the port holds and sleeps at the end of the pass
ReadLoopTurn(t, port, queue, raising) ==
    LET b == Broadcast(t.cb + 1, raising)
        read == ReadLines(t.buffer \o port, queue, raising)
        left == ReadLines(t.buffer, queue, raising)
    IN  CASE t.st = "cancelling" ->
                 [task |-> [t EXCEPT !.st = "cancelled", !.cb = 0],
                  port |-> port, queue |-> queue]
          [] t.st = "callback" /\ raising = t.cb ->
                 [task |-> [t EXCEPT !.st = "sleeping", !.cb = 0],
                  port |-> port, queue |-> queue]
          [] t.st = "callback" /\ b.st /= "running" ->
                 [task |-> [t EXCEPT !.st = b.st, !.cb = b.cb],
                  port |-> port, queue |-> queue]
          [] t.st = "callback" ->
                 [task |-> [st |-> left.st, cb |-> left.cb,
                            buffer |-> left.buffer],
                  port |-> port, queue |-> left.queue]
          [] ~(ser_running /\ ser_connection = "open") ->
                 [task |-> [t EXCEPT !.st = "finished"], port |-> port,
                  queue |-> queue]
          [] port /= <<>> ->
                 [task |-> [st |-> read.st, cb |-> read.cb,
                            buffer |-> read.buffer],
                  port |-> <<>>, queue |-> read.queue]
          [] OTHER ->
                 [task |-> [t EXCEPT !.st = "running"], port |-> port,
                  queue |-> queue]

\* Queue.put_nowait wakes the first getter that waits, at each put: after n
\* puts the first n of them are woken
RECURSIVE WakeGetters(_, _, _)
WakeGetters(n, get, getters) ==
    IF n = 0 \/ getters = <<>> THEN [get |-> get, getters |-> getters]
    ELSE WakeGetters(n - 1, [get EXCEPT ![Head(getters)].st = "woken"],
                     Tail(getters))

\* the exception handler of connect(): an open port is closed,
\* is_connected is cleared and connect() returns False
serial_connect_failed(c, reqs) ==
    /\ ser_connection' = IF ser_connection = "open" THEN "closed"
                         ELSE ser_connection
    /\ ser_buffer' = IF ser_connection = "open" THEN <<>> ELSE ser_buffer
    /\ ser_connected' = FALSE
    /\ Returns(c, "serial_connect", frame[c].pre, reqs, NoReply, "False")

\* connect() up to its first await: without a port, and none detected, it
\* returns False; a port that does not open raises; otherwise
\* serial_connection is the opened port and connect() sleeps while the
\* Arduino resets
serial_connect_call(c, outcome) ==
    /\ Calls(c)
    /\ outcome = "no_port" => ~ser_port
    /\ ser_port' = (ser_port \/ outcome /= "no_port")
    /\ CASE outcome = "no_port" ->
              /\ Returns(c, "serial_connect", ser_connected, <<>>, NoReply,
                         "False")
              /\ UNCHANGED <<ser_connection, ser_buffer, ser_connected>>
         [] outcome = "open_fails" ->
              /\ ser_connection' = IF ser_connection = "open" THEN "closed"
                                   ELSE ser_connection
              /\ ser_buffer' = IF ser_connection = "open" THEN <<>>
                               ELSE ser_buffer
              /\ ser_connected' = FALSE
              /\ Returns(c, "serial_connect", ser_connected, <<>>, NoReply,
                         "False")
         [] OTHER ->
              /\ ser_connection' = "open"
              /\ ser_buffer' = <<>>
              /\ AwaitsWith(c, "serial_connect", "reset_wait",
                            ser_connected, <<>>, NoReply, 0)
              /\ UNCHANGED ser_connected
    /\ UNCHANGED <<ser_queue, ser_turns, ser_running, ser_tasks,
                   ser_read_task, ser_callbacks, ser_threshold, serGets>>
    /\ UNCHANGED serRest

\* the end of disconnect(): an open port is closed, serial_connection is
\* None and is_connected False
serial_disconnect_end(c) ==
    /\ ser_connection' = "none"
    /\ ser_buffer' = <<>>
    /\ ser_connected' = FALSE
    /\ Returns(c, "serial_disconnect", frame[c].pre, <<>>, NoReply, "None")

\* disconnect() up to its await: _running is cleared and a read task
\* cancelled and awaited; a task that is done does not make it wait
serial_disconnect_call(c) ==
    LET tasks == IF ser_read_task = 0 THEN ser_tasks
                 ELSE [ser_tasks EXCEPT ![ser_read_task].st = Cancel(@)] IN
        /\ Calls(c)
        /\ ser_running' = FALSE
        /\ ser_tasks' = tasks
        /\ IF ser_read_task /= 0 /\ ~Done(tasks[ser_read_task].st)
           THEN /\ AwaitsWith(c, "serial_disconnect", "task_wait",
                              ser_connected, <<>>, NoReply, ser_read_task)
                /\ UNCHANGED <<ser_connection, ser_buffer, ser_connected>>
           ELSE /\ ser_connection' = "none"
                /\ ser_buffer' = <<>>
                /\ ser_connected' = FALSE
                /\ Returns(c, "serial_disconnect", ser_connected, <<>>,
                           NoReply, "None")
        /\ UNCHANGED <<ser_port, ser_queue, ser_turns, ser_read_task,
                       ser_callbacks, ser_threshold, serGets>>
        /\ UNCHANGED serRest

\* _read_serial_response up to its await: wait_for makes a task of
\* _read_queue.get(), sets its timeout and waits
WaitsForResponse(c) ==
    /\ ser_turns' = [ser_turns EXCEPT ![c] = 0]
    /\ ser_get' = [ser_get EXCEPT ![c] = [st |-> "created",
                                          item |-> "None"]]
    /\ UNCHANGED ser_getters

\* the call of task c goes on after an await other than the wait for a
\* response.  After the sleep of connect(): reset_input_buffer raises
\* without an open port; otherwise the input buffer is cleared, the status
\* request written and the response awaited.  After the await of the
\* cancelled read task, once that is done: the end of disconnect().  After
\* a sleep of start_monitoring: it sleeps again while is_connected holds
\* and returns otherwise
serial_resumes(c) ==
    /\ \/ SerialWaits(c, "reset_wait")
       \/ SerialWaits(c, "keeping")
       \/ SerialWaits(c, "task_wait") /\ Done(ser_tasks[frame[c].value].st)
    /\ CASE frame[c].pc = "reset_wait" /\ ser_connection = "open" ->
              /\ ser_buffer' = <<>>
              /\ WaitsForResponse(c)
              /\ AwaitsWith(c, "serial_connect", "response_wait",
                            frame[c].pre, <<"status">>, NoReply, 0)
              /\ UNCHANGED <<ser_connection, ser_connected>>
         [] frame[c].pc = "reset_wait" ->
              /\ serial_connect_failed(c, <<>>)
              /\ UNCHANGED <<ser_turns, serGets>>
         [] frame[c].pc = "task_wait" ->
              /\ serial_disconnect_end(c)
              /\ UNCHANGED <<ser_turns, serGets>>
         [] frame[c].pc = "keeping" /\ ser_connected ->
              UNCHANGED <<callVars, returned, ser_connection, ser_buffer,
                          ser_connected, ser_turns, serGets>>
         [] OTHER ->
              /\ Returns(c, frame[c].op, frame[c].pre, frame[c].requests,
                         NoReply, "None")
              /\ UNCHANGED <<ser_connection, ser_buffer, ser_connected,
                             ser_turns, serGets>>
    /\ UNCHANGED <<ser_port, ser_queue, ser_running, ser_tasks,
                   ser_read_task, ser_callbacks, ser_threshold, side_calls>>
    /\ UNCHANGED serRest

\* what a method built on send_command makes of the response m (None
\* without one): send_command returns it (null is None); read_sensor_data
\* returns the data of a response that holds a value; set_threshold returns
\* whether the response is true in a test and holds a true "success", and
\* its get raises on another response that is not an object, as it does in
\* start_monitoring, which goes on ("keeps") after a success;
\* calibrate_sensor tests the response against None only, so that its get
\* raises on every response that is not an object and not null
CommandReturn(method, m) ==
    CASE method = "serial_send_command" -> IF m = "null" THEN "None" ELSE m
      [] method = "serial_read_sensor_data" ->
             IF m = "sensor_data" THEN "data" ELSE "None"
      [] method = "serial_stop_monitoring" -> "None"
      [] m = "array" -> "raised"
      [] method = "serial_calibrate_sensor" /\ m = "emptylist" -> "raised"
      [] method = "serial_start_monitoring" ->
             IF m = "success" THEN "keeps" ELSE "None"
      [] OTHER -> PyBool(m = "success")

\* send_command or a method built on it, up to its await: None without
\* is_connected or without serial_connection; otherwise the queue is
\* emptied and the command written, which raises on a closed port (None);
\* then the response is awaited
serial_command_call(c, command) ==
    LET sends == ser_connected /\ ser_connection /= "none"
        none == CommandReturn(command.method, "None")
    IN  /\ Calls(c)
        /\ ser_queue' = IF sends THEN <<>> ELSE ser_queue
        /\ IF sends /\ ser_connection = "open"
           THEN /\ WaitsForResponse(c)
                /\ AwaitsWith(c, command.method, "response_wait", TRUE,
                              <<command.action>>, NoReply, command.value)
           ELSE /\ Returns(c, command.method, ser_connected, <<>>, NoReply,
                           none)
                /\ UNCHANGED <<ser_turns, serGets>>
        /\ UNCHANGED <<ser_port, ser_connection, ser_buffer, ser_connected,
                       ser_running, ser_tasks, ser_read_task, ser_callbacks,
                       ser_threshold>>
        /\ UNCHANGED serRest

\* the timeout of wait_for passes while task c waits and its Queue.get is
\* not done: the caller is woken
serial_timeout_passes(c) ==
    /\ SerialWaits(c, "response_wait")
    /\ ser_turns[c] = MaxWaitTurns
    /\ ser_get[c].st /= "done"
    /\ frame' = [frame EXCEPT ![c].pc = "response_timeout"]
    /\ UNCHANGED <<side_calls, last_sent, returned>>
    /\ UNCHANGED serVars
    /\ UNCHANGED serRest

\* the rest of connect() or of the method built on send_command, with the
\* response m (None after a timeout).  In connect(): a response with status
\* "online" sets is_connected and _running, creates the read task and
\* returns True; the get of a response that is true in a test and not an
\* object raises, and so does the close() of a port that a disconnect() has
\* taken away; anything else closes the port and returns False.  In
\* send_command the response is returned to the method that called it
serial_response_read(c, m) ==
    LET v == CommandReturn(frame[c].op, m)
    IN  CASE frame[c].op = "serial_connect" /\ m = "online" ->
                  /\ Len(ser_tasks) < MaxTasks
                  /\ ser_connected' = TRUE
                  /\ ser_running' = TRUE
                  /\ ser_tasks' = Append(ser_tasks,
                                         [st |-> "created", cb |-> 0,
                                          buffer |-> <<>>])
                  /\ ser_read_task' = Len(ser_tasks) + 1
                  /\ Returns(c, "serial_connect", frame[c].pre,
                             frame[c].requests, NoReply, "True")
                  /\ UNCHANGED <<ser_connection, ser_buffer, ser_threshold>>
             [] frame[c].op = "serial_connect"
                /\ (m = "array" \/ ser_connection = "none") ->
                  /\ serial_connect_failed(c, frame[c].requests)
                  /\ UNCHANGED <<ser_running, ser_tasks, ser_read_task,
                                 ser_threshold>>
             [] frame[c].op = "serial_connect" ->
                  /\ ser_connection' = "closed"
                  /\ ser_buffer' = <<>>
                  /\ Returns(c, "serial_connect", frame[c].pre,
                             frame[c].requests, NoReply, "False")
                  /\ UNCHANGED <<ser_connected, ser_running, ser_tasks,
                                 ser_read_task, ser_threshold>>
             [] v = "keeps" /\ ser_connected ->
                  /\ AwaitsWith(c, frame[c].op, "keeping", frame[c].pre,
                                frame[c].requests, NoReply, 0)
                  /\ UNCHANGED <<ser_connection, ser_buffer, ser_connected,
                                 ser_running, ser_tasks, ser_read_task,
                                 ser_threshold>>
             [] OTHER ->
                  /\ ser_threshold' =
                         IF frame[c].op = "serial_set_threshold"
                            /\ v = "True"
                         THEN frame[c].value ELSE ser_threshold
                  /\ Returns(c, frame[c].op, frame[c].pre,
                             frame[c].requests, NoReply,
                             IF v = "keeps" THEN "None" ELSE v)
                  /\ UNCHANGED <<ser_connection, ser_buffer, ser_connected,
                                 ser_running, ser_tasks, ser_read_task>>

\* task c goes on in wait_for: woken with its Queue.get done, it returns
\* what the get took; woken by the timeout with the get not done, it
\* cancels the get and awaits its end; once the cancelled get has ended,
\* TimeoutError is raised and _read_serial_response returns None
serial_read_response(c) ==
    LET g == ser_get[c]
    IN  /\ \/ SerialWaits(c, "response_wait") /\ g.st = "done"
           \/ SerialWaits(c, "response_timeout")
           \/ SerialWaits(c, "response_cancel") /\ g.st = "cancelled"
        /\ IF frame[c].pc = "response_timeout" /\ g.st /= "done"
           THEN /\ ser_get' = [ser_get EXCEPT ![c].st =
                                  IF g.st = "woken" THEN "woken_cancelling"
                                  ELSE "cancelling"]
                /\ ser_getters' = SelectSeq(ser_getters,
                                            LAMBDA d : d /= c)
                /\ frame' = [frame EXCEPT ![c].pc = "response_cancel"]
                /\ Forgotten
                /\ UNCHANGED last_sent
                /\ UNCHANGED <<ser_connection, ser_buffer, ser_connected,
                               ser_running, ser_tasks, ser_read_task,
                               ser_threshold>>
           ELSE /\ ser_get' = [ser_get EXCEPT ![c] = NoGet]
                /\ UNCHANGED ser_getters
                /\ serial_response_read(c, g.item)
        /\ UNCHANGED <<ser_port, ser_queue, ser_turns, ser_callbacks,
                       side_calls>>
        /\ UNCHANGED serRest

\* add_vibration_callback: the callback is appended
serial_add_vibration_callback(kind) ==
    /\ Len(ser_callbacks) < MaxListeners
    /\ ser_callbacks' = Append(ser_callbacks, kind)
    /\ UNCHANGED <<ser_port, ser_connection, ser_buffer, ser_queue,
                   ser_turns, ser_connected, ser_running, ser_tasks,
                   ser_read_task, ser_threshold, serGets>>
    /\ UNCHANGED <<callVars, returned>>
    /\ UNCHANGED serRest

\* the device writes a line to the open port
device_writes(line) ==
    /\ ser_connection = "open"
    /\ Len(ser_buffer) < MaxLines
    /\ ser_buffer' = Append(ser_buffer, line)
    /\ UNCHANGED <<ser_port, ser_connection, ser_queue, ser_turns,
                   ser_connected, ser_running, ser_tasks, ser_read_task,
                   ser_callbacks, ser_threshold, serGets>>
    /\ UNCHANGED <<callVars, returned>>
    /\ UNCHANGED serRest

\* the time of the waits for a response passes
serial_time_passes ==
    /\ \E c \in Callers : /\ SerialWaits(c, "response_wait")
                          /\ ser_turns[c] < MaxWaitTurns
    /\ ser_turns' = [c \in Callers |->
                        IF /\ SerialWaits(c, "response_wait")
                           /\ ser_turns[c] < MaxWaitTurns
                        THEN ser_turns[c] + 1 ELSE ser_turns[c]]
    /\ UNCHANGED <<ser_port, ser_connection, ser_buffer, ser_queue,
                   ser_connected, ser_running, ser_tasks, ser_read_task,
                   ser_callbacks, ser_threshold, serGets>>
    /\ UNCHANGED <<callVars, returned>>
    /\ UNCHANGED serRest

\* the Queue.get task of the wait_for of task c takes a step.  At its
\* start, or woken by a put: it takes the head of the queue, or waits as
\* the last getter when the queue is empty.  Cancelled: it ends; one that
\* a put had woken wakes the next getter when the queue holds an item
get_step(c) ==
    LET g == ser_get[c]
        next == WakeGetters(IF g.st = "woken_cancelling" /\ ser_queue /= <<>>
                            THEN 1 ELSE 0,
                            [ser_get EXCEPT ![c].st = "cancelled"],
                            ser_getters)
    IN  /\ g.st \in {"created", "woken", "cancelling", "woken_cancelling"}
        /\ CASE g.st \in {"created", "woken"} /\ ser_queue /= <<>> ->
                  /\ ser_get' = [ser_get EXCEPT ![c] =
                                    [st |-> "done",
                                     item |-> Head(ser_queue)]]
                  /\ ser_queue' = Tail(ser_queue)
                  /\ UNCHANGED ser_getters
             [] g.st \in {"created", "woken"} ->
                  /\ ser_get' = [ser_get EXCEPT ![c].st = "waiting"]
                  /\ ser_getters' = Append(ser_getters, c)
                  /\ UNCHANGED ser_queue
             [] OTHER ->
                  /\ ser_get' = next.get
                  /\ ser_getters' = next.getters
                  /\ UNCHANGED ser_queue
        /\ UNCHANGED <<ser_tasks, ser_buffer>>

\* the _serial_read_loop task i takes a step; each line it puts on the
\* queue wakes a getter
read_loop_step(i, raising) ==
    LET turn == ReadLoopTurn(ser_tasks[i], ser_buffer, ser_queue, raising)
        woken == WakeGetters(Len(turn.queue) - Len(ser_queue), ser_get,
                             ser_getters)
    IN  /\ i <= Len(ser_tasks)
        /\ Alive(ser_tasks[i].st)
        /\ ser_tasks' = [ser_tasks EXCEPT ![i] = turn.task]
        /\ ser_buffer' = turn.port
        /\ ser_queue' = turn.queue
        /\ ser_get' = woken.get
        /\ ser_getters' = woken.getters

\* the tasks the event loop runs besides the callers: the Queue.get of the
\* wait_for of each caller, and the read loops
SerialTasks ==
    [kind : {"get"}, of : Callers] \cup [kind : {"read"}, of : 1..MaxTasks]

\* one task of the event loop takes one step, whichever is ready: the
\* tasks run one at a time, in no fixed order
serial_task_step(t, raising) ==
    /\ IF t.kind = "get" THEN raising = 0 /\ get_step(t.of)
       ELSE read_loop_step(t.of, raising)
    /\ UNCHANGED <<ser_port, ser_connection, ser_turns, ser_connected,
                   ser_running, ser_read_task, ser_callbacks,
                   ser_threshold>>
    /\ UNCHANGED <<callVars, returned>>
    /\ UNCHANGED serRest

MoreNew == ChatNew /\ CallNew /\ GlueNew /\ SerialNew /\ MonNew

----------------------------------------------------------------------------
(* Calls of the pattern generators: each is applied to the emotion vector *)
(* the behaviour started with                                             *)

CallFromEmotionValues ==
    LET e == emotions IN
        /\ tool = "none"
        /\ UNCHANGED <<emotions, args>>
        /\ tool' = "from_emotion_values"
        /\ result' = from_emotion_values(e.joy, e.fun, e.anger, e.sad)
        /\ UNCHANGED <<ctlVars, moreVars>>

CallAgentTool ==
    LET e == emotions IN
        /\ tool = "none"
        /\ UNCHANGED <<emotions, args>>
        /\ tool' = "agent"
        /\ result' = agent_generate_vibration_pattern(e.joy, e.fun, e.anger,
                                                      e.sad)
        /\ UNCHANGED <<ctlVars, moreVars>>

CallDirectTool ==
    LET e == emotions IN
        /\ tool = "none"
        /\ UNCHANGED <<emotions, args>>
        /\ tool' = "direct"
        /\ result' = generate_vibration_pattern_direct(e.joy, e.fun, e.anger,
                                                       e.sad)
        /\ UNCHANGED <<ctlVars, moreVars>>

\* call_tool of the vibration MCP server: the arguments are validated first
CallServerTool ==
    LET e == emotions IN
        /\ tool = "none"
        /\ UNCHANGED <<emotions, args>>
        /\ tool' = "server"
        /\ result' = IF GenerateVibrationArgs(e)
                     THEN server_generate_vibration_pattern(e.joy, e.fun,
                                                            e.anger, e.sad)
                     ELSE ValidationError
        /\ UNCHANGED <<ctlVars, moreVars>>

\* call_tool of the WiFi vibration MCP server
CallWifiTool ==
    LET e == emotions IN
        /\ tool = "none"
        /\ UNCHANGED <<emotions, args>>
        /\ tool' = "wifi"
        /\ result' = IF GenerateVibrationArgs(e)
                     THEN wifi_generate_vibration_pattern(e.joy, e.fun,
                                                          e.anger, e.sad)
                     ELSE ValidationError
        /\ UNCHANGED <<ctlVars, moreVars>>

\* VibrationPatternGenerator.create_custom_pattern on the drawn arguments
CallCreateCustomPattern ==
    /\ tool = "none"
    /\ args.kind = "custom"
    /\ tool' = "create_custom_pattern"
    /\ result' = create_custom_pattern(args.pattern_type, args.intensity,
                                       args.duration_ms, args.repeat_count)
    /\ UNCHANGED <<emotions, args>>
    /\ UNCHANGED <<ctlVars, moreVars>>

\* VibrationPattern.to_dict of the pattern just generated, as send_pattern
\* applies it before the POST
CallToDict ==
    /\ tool \in {"from_emotion_values", "create_custom_pattern"}
    /\ tool' = "to_dict"
    /\ result' = PatternToDict(result)
    /\ UNCHANGED <<emotions, args>>
    /\ UNCHANGED <<ctlVars, moreVars>>

----------------------------------------------------------------------------
(* Specifications *)

\* a new ArduinoController and a new VibrationSensorControllerWiFi; no
\* pattern generator has been called
Init ==
    /\ emotions = Emotions(0, 0, 0, 0)
    /\ tool = "none"
    /\ result = NoPattern
    /\ is_connected = FALSE
    /\ session = "none"
    /\ wifi_connected = FALSE
    /\ wifi_session = "none"
    /\ wifi_running = FALSE
    /\ op = "none"
    /\ ret = "None"
    /\ pre_connected = FALSE
    /\ reply = NoReply
    /\ requests = <<>>
    /\ history = "new"
    /\ live = 0
    /\ MoreNew
    /\ args = NoArgs

\* the same in either process that holds an ArduinoController for its
\* tools: the vibration MCP server, and the agent with the tools of
\* agent_mcp/vibration_tool.py, where arduino_initialized = False
GlueInit ==
    /\ emotions = Emotions(0, 0, 0, 0)
    /\ tool = "none"
    /\ result = NoPattern
    /\ is_connected = FALSE
    /\ session = "none"
    /\ wifi_connected = FALSE
    /\ wifi_session = "none"
    /\ wifi_running = FALSE
    /\ op = "none"
    /\ ret = "None"
    /\ pre_connected = FALSE
    /\ reply = NoReply
    /\ requests = <<>>
    /\ history = "new"
    /\ live = 0
    /\ ChatNew /\ CallNew /\ SerialNew /\ MonNew
    /\ \E flag \in {"absent", "False"} : ToolsNew(flag)
    /\ args = NoArgs

\* the same, with the emotion vector of the coming call drawn from the bounds
GenInit ==
    /\ emotions \in EmotionVectors
    /\ tool = "none"
    /\ result = NoPattern
    /\ is_connected = FALSE
    /\ session = "none"
    /\ wifi_connected = FALSE
    /\ wifi_session = "none"
    /\ wifi_running = FALSE
    /\ op = "none"
    /\ ret = "None"
    /\ pre_connected = FALSE
    /\ reply = NoReply
    /\ requests = <<>>
    /\ history = "new"
    /\ live = 0
    /\ MoreNew
    /\ args = NoArgs

\* the arguments offered to create_custom_pattern
PatternTypes == {"pulse", "wave", "burst", "fade", "zigzag", ""}

CustomDurations == {0, 7, 100, 1000}

CustomArgs ==
    [kind : {"custom"},
     pattern_type : PatternTypes,
     intensity : {Tenths(n) : n \in (0 - OverRange)..(10 + OverRange)}
                 \cup {35 * 100, 4143},
     duration_ms : CustomDurations,
     repeat_count : 0..MaxRepeat]

\* emotion vectors inside the documented range 0..5
ValidVectors == {e \in EmotionVectors : GenerateVibrationArgs(e)}

\* a pattern is about to be generated, from an emotion vector of the
\* documented range or from custom arguments
PatInit ==
    /\ \/ emotions \in ValidVectors /\ args = NoArgs
       \/ emotions = Emotions(0, 0, 0, 0) /\ args \in CustomArgs
    /\ tool = "none"
    /\ result = NoPattern
    /\ is_connected = FALSE
    /\ session = "none"
    /\ wifi_connected = FALSE
    /\ wifi_session = "none"
    /\ wifi_running = FALSE
    /\ op = "none"
    /\ ret = "None"
    /\ pre_connected = FALSE
    /\ reply = NoReply
    /\ requests = <<>>
    /\ history = "new"
    /\ live = 0
    /\ MoreNew

RetryArgs == [kind : {"retry"}, retry_count : 0..MaxRetry]

\* a new controller with a retry_count of the bounds, on which one request
\* is about to be made through _retry_request
RetryInit ==
    /\ args \in RetryArgs
    /\ emotions = Emotions(0, 0, 0, 0)
    /\ tool = "none"
    /\ result = NoPattern
    /\ is_connected = FALSE
    /\ session = "none"
    /\ wifi_connected = FALSE
    /\ wifi_session = "none"
    /\ wifi_running = FALSE
    /\ op = "none"
    /\ ret = "None"
    /\ pre_connected = FALSE
    /\ reply = NoReply
    /\ requests = <<>>
    /\ history = "new"
    /\ live = 0
    /\ MoreNew

GenNext ==
    \/ CallFromEmotionValues
    \/ CallAgentTool
    \/ CallDirectTool
    \/ CallServerTool
    \/ CallWifiTool

\* the calls of one task, each awaited before the next is made
CtlNext ==
    \/ connect_call(MainCaller)
    \/ \E r \in Replies : connect_answered(MainCaller, r)
    \/ disconnect_call(MainCaller)
    \/ \E r \in Replies : disconnect_stop_answered(MainCaller, r)
    \/ disconnect_return(MainCaller)
    \/ send_pattern_call(MainCaller)
    \/ \E r \in Replies : send_pattern_answered(MainCaller, r)
    \/ stop_call(MainCaller)
    \/ \E r \in Replies : stop_answered(MainCaller, r)
    \/ get_status_call(MainCaller)
    \/ \E r \in Replies : get_status_answered(MainCaller, r)
    \/ \E command \in Commands :
           send_vibration_command_call(MainCaller, command)
    \/ wifi_connect_call(MainCaller)
    \/ \E r \in Replies : wifi_connect_answered(MainCaller, r)
    \/ \E body \in Bodies : wifi_connect_decoded(MainCaller, body)
    \/ wifi_connect_closed(MainCaller)
    \/ session_closed

PatNext ==
    \/ CallFromEmotionValues
    \/ CallCreateCustomPattern
    \/ CallToDict

ChatNext == \E input \in ChatInputs : process_input(input)

\* the methods of the serial controller called by two tasks, the device,
\* and the timers and the tasks of the event loop
SerialNext ==
    \/ \E c \in Callers, outcome \in SerialOutcomes :
           serial_connect_call(c, outcome)
    \/ \E c \in Callers : serial_resumes(c)
    \/ \E c \in Callers : serial_timeout_passes(c)
    \/ \E c \in Callers : serial_read_response(c)
    \/ \E c \in Callers : serial_disconnect_call(c)
    \/ \E c \in Callers, command \in SerialCommands :
           serial_command_call(c, command)
    \/ \E kind \in CallbackKinds : serial_add_vibration_callback(kind)
    \/ \E line \in SerialLines : device_writes(line)
    \/ serial_time_passes
    \/ \E t \in SerialTasks, raising \in 0..MaxListeners :
           serial_task_step(t, raising)

\* the answers the device gives to calls that overlap: one of each kind
IlvReplies ==
    {r \in Replies :
        \/ r.kind = "timeout"
        \/ r.status = 200 /\ r.body \in {"ready", "online", "ok", "stopped",
                                          "null"}
        \/ r.status = 404 /\ r.body = "error"}

\* a call of task c on one VibrationSensorControllerWiFi, up to its first
\* await
MonCall(c) ==
    \/ wifi_connect_call(c)
    \/ mon_start_call(c)
    \/ mon_stop_call(c)
    \/ wifi_disconnect_call(c)
    \/ \E command \in WifiCommands : wifi_send_command_call(c, command)
    \/ \E m \in WifiMethods : wifi_method_call(c, m)

\* the calls in progress go on, a callback is registered, and the
\* monitoring tasks take their steps
MonStep ==
    \/ \E c \in Callers, r \in MonAnswers :
           wifi_connect_answered(c, r)
    \/ \E c \in Callers, body \in ConnectBodies :
           wifi_connect_decoded(c, body)
    \/ \E c \in Callers : wifi_connect_closed(c)
    \/ \E kind \in CallbackKinds : add_vibration_callback(kind)
    \/ \E c \in Callers : mon_start_resume(c)
    \/ \E c \in Callers : mon_start_wake(c)
    \/ \E c \in Callers : mon_stop_resume(c)
    \/ \E c \in Callers : wifi_disconnect_resume(c)
    \/ \E c \in Callers : wifi_disconnect_closed(c)
    \/ \E c \in Callers, r \in MonAnswers :
           wifi_send_command_answered(c, r)
    \/ \E c \in Callers, body \in CommandBodies :
           wifi_send_command_decoded(c, body)
    \/ \E c \in Callers, r \in MonAnswers : wifi_method_answered(c, r)
    \/ \E c \in Callers, body \in MethodBodies :
           wifi_method_decoded(c, body)
    \/ \E i \in 1..MaxTasks : mon_loop_check(i)
    \/ \E i \in 1..MaxTasks, k \in MonReplies : mon_loop_answered(i, k)
    \/ \E i \in 1..MaxTasks, body \in MonBodies, raising \in 0..MaxListeners :
           mon_loop_decoded(i, body, raising)
    \/ \E i \in 1..MaxTasks, raised \in BOOLEAN, raising \in 0..MaxListeners :
           mon_callback_done(i, raised, raising)
    \/ \E i \in 1..MaxTasks : mon_loop_cancelled(i)

\* the calls of two tasks on one VibrationSensorControllerWiFi, each
\* beginning at any time, whatever the other task awaits, and the steps of
\* the monitoring tasks
MonNext ==
    \/ \E c \in Callers : MonCall(c)
    \/ MonStep

\* the same with the calls made one after the other: a call begins once
\* the calls before it have returned or stand in the keep-alive loop of
\* start_monitoring
MonSeqNext ==
    \/ \E c \in Callers : InTurn(c) /\ wifi_connect_call(c)
    \/ \E c \in Callers : InTurn(c) /\ mon_start_call(c)
    \/ \E c \in Callers : InTurn(c) /\ mon_stop_call(c)
    \/ \E c \in Callers : InTurn(c) /\ wifi_disconnect_call(c)
    \/ \E c \in Callers, command \in WifiCommands :
           InTurn(c) /\ wifi_send_command_call(c, command)
    \/ \E c \in Callers, m \in WifiMethods :
           InTurn(c) /\ wifi_method_call(c, m)
    \/ MonStep

\* the bodies of the 200 answers to the WiFi tools: the status read by
\* connect(), another status, a JSON array, null, and text that is not JSON
WifiBodies == {"online", "ready", "array", "null", "nonjson"}

\* the commands given to calls that overlap: "bad" and "WAVE:255,1.5,300"
IlvCommands ==
    {command \in Commands :
        \/ Len(command) = 1
        \/ ~Malformed(command)
           /\ command[1] = <<Word(<<"W", "A", "V", "E">>)>>}

\* the tools of the vibration MCP server called by two tasks, each running
\* while the other awaits
GlueNext ==
    \/ \E c \in Callers : initialize_arduino_call(c)
    \/ \E c \in Callers, r \in IlvReplies : initialize_arduino_stopped(c, r)
    \/ \E c \in Callers : initialize_arduino_closed(c)
    \/ \E c \in Callers, r \in IlvReplies : initialize_arduino_probed(c, r)
    \/ \E c \in Callers, r \in IlvReplies : initialize_arduino_status(c, r)
    \/ \E c \in Callers, settings \in ControlSettings :
           control_vibration_call(c, settings)
    \/ \E c \in Callers, r \in IlvReplies : control_vibration_answered(c, r)
    \/ \E c \in Callers, a \in SendArgs : send_arduino_vibration_call(c, a)
    \/ \E c \in Callers, r \in IlvReplies :
           send_arduino_vibration_answered(c, r)
    \/ \E c \in Callers, n \in 1..Len(WireDicts) :
           send_vibration_direct_call(c, n)
    \/ \E c \in Callers, r \in IlvReplies :
           send_vibration_direct_answered(c, r)

\* the tools of the WiFi vibration server (call_tool), called by two tasks.
\* The tools hand send_command the actions "status", "vibrate" and
\* "stop_vibration" only; the calls of send_command with the other actions
\* it routes are made on the controller itself (MonNext)
WifiNext ==
    \/ \E c \in Callers : wifi_initialize_arduino_call(c)
    \/ \E c \in Callers : wifi_initialize_arduino_disconnected(c)
    \/ \E c \in Callers, r \in IlvReplies :
           wifi_initialize_arduino_answered(c, r)
    \/ \E c \in Callers, body \in WifiBodies :
           wifi_initialize_arduino_decoded(c, body)
    \/ \E c \in Callers : wifi_initialize_arduino_closed(c)
    \/ \E c \in Callers, r \in IlvReplies :
           wifi_initialize_arduino_calibrated(c, r)
    \/ \E c \in Callers, body \in WifiBodies :
           wifi_initialize_arduino_calibrate_decoded(c, body)
    \/ \E c \in Callers, r \in IlvReplies :
           wifi_initialize_arduino_status_answered(c, r)
    \/ \E c \in Callers, body \in WifiBodies :
           wifi_initialize_arduino_status_decoded(c, body)
    \/ \E c \in Callers, enabled \in BOOLEAN, complete \in BOOLEAN :
           wifi_control_vibration(c, enabled, complete)
    \/ \E c \in Callers : wifi_send_arduino_vibration(c)

\* one request made through _retry_request by the main task, while the
\* other task connects and disconnects the controller and the session is
\* closed from outside between calls
RetryNext ==
    \/ retry_call(MainCaller)
    \/ \E r \in RetryReplies : retry_answered(MainCaller, r)
    \/ retry_wakes(MainCaller)
    \/ connect_call(SideCaller)
    \/ \E r \in IlvReplies : connect_answered(SideCaller, r)
    \/ disconnect_call(SideCaller)
    \/ \E r \in IlvReplies : disconnect_stop_answered(SideCaller, r)
    \/ disconnect_return(SideCaller)
    \/ session_closed

\* the calls of two tasks on one ArduinoController, each running while the
\* other awaits
IlvNext ==
    \/ \E c \in Callers : connect_call(c)
    \/ \E c \in Callers, r \in IlvReplies : connect_answered(c, r)
    \/ \E c \in Callers : disconnect_call(c)
    \/ \E c \in Callers, r \in IlvReplies : disconnect_stop_answered(c, r)
    \/ \E c \in Callers : disconnect_return(c)
    \/ \E c \in Callers : send_pattern_call(c)
    \/ \E c \in Callers, r \in IlvReplies : send_pattern_answered(c, r)
    \/ \E c \in Callers : stop_call(c)
    \/ \E c \in Callers, r \in IlvReplies : stop_answered(c, r)
    \/ \E c \in Callers : get_status_call(c)
    \/ \E c \in Callers, r \in IlvReplies : get_status_answered(c, r)
    \/ \E c \in Callers, command \in IlvCommands :
           send_vibration_command_call(c, command)

\* the calls of two tasks on one VibrationSensorControllerWiFi
WifiIlvNext ==
    \/ \E c \in Callers : wifi_connect_call(c)
    \/ \E c \in Callers, r \in IlvReplies : wifi_connect_answered(c, r)
    \/ \E c \in Callers, body \in Bodies : wifi_connect_decoded(c, body)
    \/ \E c \in Callers : wifi_connect_closed(c)
    \/ \E c \in Callers : wifi_disconnect_call(c)
    \/ \E c \in Callers : wifi_disconnect_closed(c)

\* the pattern generators, called with every emotion vector of the bounds
GenSpec == GenInit /\ [][GenNext]_vars

\* one ArduinoController and one VibrationSensorControllerWiFi, called by
\* one task, against a device that may answer any request in any way
CtlSpec == Init /\ [][CtlNext]_vars

\* a pattern generated by from_emotion_values or create_custom_pattern and
\* then serialized for the device
PatSpec == PatInit /\ [][PatNext]_vars

\* one call of the retry helper, step by step, while another task connects
\* and disconnects the controller
RetrySpec == RetryInit /\ [][RetryNext]_vars

\* one EmotionalChatbot fed any sequence of inputs
ChatSpec == Init /\ [][ChatNext]_vars

\* the process-wide controller reference under any sequence or interleaving
\* of tool calls against any device
GlueSpec == GlueInit /\ [][GlueNext]_vars

\* the same for the WiFi server
WifiSpec == Init /\ [][WifiNext]_vars

\* one VibrationSensorControllerWiFi whose methods two tasks call, the
\* calls overlapping in any way
MonSpec == Init /\ [][MonNext]_vars

\* one VibrationSensorControllerWiFi under a sequence of calls
MonSeqSpec == Init /\ [][MonSeqNext]_vars

\* the event loop keeps running: time passes, a timeout that is due
\* passes, a task that is ready takes its step, a sleep that is over ends,
\* and a call that was woken in wait_for goes on
SerialSpec ==
    Init /\ [][SerialNext]_vars
         /\ WF_vars(serial_time_passes)
         /\ WF_vars(\E c \in Callers : serial_timeout_passes(c))
         /\ WF_vars(\E t \in SerialTasks, raising \in 0..MaxListeners :
                        serial_task_step(t, raising))
         /\ WF_vars(\E c \in Callers : serial_resumes(c))
         /\ WF_vars(\E c \in Callers : serial_read_response(c))

\* one ArduinoController called by two tasks, whose calls interleave at
\* their awaits
IlvSpec == Init /\ [][IlvNext]_vars

\* one VibrationSensorControllerWiFi called by two tasks in the same way
WifiIlvSpec == Init /\ [][WifiIlvNext]_vars

----------------------------------------------------------------------------
(* Properties of the pattern generators (GenSpec) *)

Keys == {"joy", "fun", "anger", "sad"}

ZeroVector == \A k \in Keys : emotions[k] = 0

\* the first key, in the order joy, fun, anger, sad, that holds the maximum
FirstMaxKey ==
    KeyOrder[CHOOSE i \in 1..4 :
                /\ \A j \in 1..4 : emotions[KeyOrder[j]] <= emotions[KeyOrder[i]]
                /\ \A j \in 1..(i - 1) :
                       emotions[KeyOrder[j]] < emotions[KeyOrder[i]]]

DominantValue == emotions[FirstMaxKey]

\* some emotion other than the dominant one has a value of 3 or more
SomeNonDominantHigh ==
    \E k \in Keys : k /= FirstMaxKey /\ emotions[k] >= 3

\* the call returned a result dictionary (its arguments passed validation)
Answered ==
    /\ tool \in {"agent", "server", "wifi", "direct"}
    /\ tool \in {"server", "wifi"} => GenerateVibrationArgs(emotions)

TypeOfEmotion ==
    [k \in Keys |->
        CASE k = "joy" -> "pulse" [] k = "fun" -> "wave"
          [] k = "anger" -> "burst" [] OTHER -> "fade"]

Durations(steps) == [i \in 1..Len(steps) |-> steps[i].duration]

\* C1: for the all-zero emotion vector from_emotion_values returns a no-op
\* pattern (no steps, or a repeat count of 0) and every tool built on pattern
\* generation reports vibration_enabled false.
C1_ZeroVectorIsNoOp ==
    ZeroVector =>
        /\ tool = "from_emotion_values" =>
               result.steps = <<>> \/ result.repeat_count = 0
        /\ Answered => result.vibration_enabled = FALSE

C1_Witness ==
    /\ ZeroVector
    /\ tool = "from_emotion_values"
    /\ result.steps = <<>>
    /\ result.repeat_count = 0

\* C5: for every emotion vector with a non-zero value, whatever the scale of
\* the values, every step intensity of from_emotion_values and the final
\* intensity of the agent tool lie in [0,1], and a dominant value of 5 with
\* the mixed adjustment gives exactly 1.0.
C5_IntensityInUnitRange ==
    ~ZeroVector =>
        /\ tool = "from_emotion_values" =>
               \A i \in 1..Len(result.steps) :
                   /\ result.steps[i].intensity >= 0
                   /\ result.steps[i].intensity <= Fine
        /\ (tool = "agent" /\ result.vibration_enabled) =>
               /\ result.intensity >= 0
               /\ result.intensity <= One
               /\ (DominantValue = 5 /\ SomeNonDominantHigh) =>
                      result.intensity = One

\* C6: the emotion multiplier of the dominant value is exactly 0.2 for the
\* value 1 and exactly 1.0 for the value 5.
C6_MultiplierBoundaries ==
    (tool \in {"agent", "wifi"} /\ Answered /\ result.vibration_enabled) =>
        /\ result.emotion_level = 1 =>
               emotion_multiplier(result.emotion_level) = Tenths(2)
        /\ result.emotion_level = 5 =>
               emotion_multiplier(result.emotion_level) = One

\* C7: for a non-zero emotion vector of values 0..5 in which no non-dominant
\* value is 3 or more, the pattern type reported by the agent tool, the vibration MCP
\* server and the WiFi vibration MCP server is the table entry of the
\* dominant emotion: joy -> pulse, fun -> wave, anger -> burst, sad -> fade.
C7_PatternTypeFromTable ==
    (/\ tool \in {"agent", "server", "wifi"}
     /\ GenerateVibrationArgs(emotions)
     /\ ~ZeroVector
     /\ ~SomeNonDominantHigh) =>
        result.pattern = TypeOfEmotion[FirstMaxKey]

\* C8: in the agent tool and the WiFi vibration MCP server the mixed
\* adjustment (name suffixed _mixed, intensity x1.1 before the clamp,
\* frequency x1.2) is applied exactly when some non-dominant emotion has a
\* value of 3 or more: {joy:5,fun:3,anger:0,sad:0} gives pulse_mixed and
\* {joy:5,fun:2,anger:0,sad:0} gives pulse.
C8_MixedIffNonDominantHigh ==
    (tool \in {"agent", "wifi"} /\ Answered /\ result.vibration_enabled) =>
        LET base == IF tool = "agent"
                    THEN agent_vibration_patterns[FirstMaxKey]
                    ELSE wifi_vibration_patterns[FirstMaxKey]
            plain_intensity ==
                (base.intensity_base * (20 + 16 * DominantValue)) \div 100
            plain_frequency ==
                (base.frequency_base * (20 + 16 * DominantValue)) \div 100
        IN  /\ SomeNonDominantHigh =>
                /\ result.pattern = MixedName(TypeOfEmotion[FirstMaxKey])
                /\ result.intensity = Min((plain_intensity * 11) \div 10, One)
                /\ result.frequency * 10 = plain_frequency * 12
            /\ ~SomeNonDominantHigh =>
                /\ result.pattern = TypeOfEmotion[FirstMaxKey]
                /\ result.intensity = Min(plain_intensity, One)
                /\ result.frequency = plain_frequency
            /\ emotions = Emotions(5, 3, 0, 0) =>
                   result.pattern = "pulse_mixed"
            /\ emotions = Emotions(5, 2, 0, 0) => result.pattern = "pulse"

C8_Witness ==
    /\ tool = "agent"
    /\ emotions = Emotions(5, 3, 0, 0)
    /\ result.pattern = "pulse_mixed"
    /\ result.mixed_emotions = <<"fun">>

\* C9: when several emotions share the maximum value the dominant emotion is
\* the first of them in the order joy, fun, anger, sad, and the dominant
\* emotion reported by the tool wrappers is the one whose preset the pattern
\* was generated from.
C9_FirstMaxWins ==
    /\ (tool = "from_emotion_values" /\ DominantValue /= 0) =>
           Durations(result.steps) = Durations(get_pattern(FirstMaxKey).steps)
    /\ (tool \in {"agent", "wifi"} /\ Answered /\ result.vibration_enabled) =>
           result.dominant_emotion = FirstMaxKey
    /\ (tool = "server" /\ Answered /\ result.vibration_enabled) =>
           /\ result.dominant_emotion = FirstMaxKey
           /\ Durations(result.vibration_pattern.steps)
                  = Durations(get_pattern(result.dominant_emotion).steps)
    /\ (tool = "direct" /\ result.vibration_enabled) =>
           /\ result.dominant_emotion = FirstMaxKey
           /\ Durations(result.pattern.steps)
                  = Durations(get_pattern(result.dominant_emotion).steps)

C9_Witness ==
    /\ tool = "server"
    /\ emotions = Emotions(0, 4, 4, 1)
    /\ result.dominant_emotion = "fun"
    /\ Len(result.vibration_pattern.steps) = Len(PresetPleasure.steps)

----------------------------------------------------------------------------
(* Properties of the controllers (CtlSpec) *)

\* the device answered 200 with a JSON object as body
Answered200 ==
    /\ reply.kind = "http"
    /\ reply.status = 200
    /\ reply.body \notin {"nonjson", "array", "null"}

\* C2: send_pattern on an ArduinoController that is not connected (never
\* connected, after a failed connect, after disconnect) returns False, does
\* not raise and sends nothing.
C2_SendPatternDisconnected ==
    (op = "send_pattern" /\ ~pre_connected) =>
        /\ ret = "False"
        /\ requests = <<>>

C2_Witness ==
    /\ op = "send_pattern"
    /\ ~pre_connected
    /\ history = "disconnected"
    /\ ret = "False"

\* C3: connect() against a device whose GET /status answers 200 returns
\* False when the status field is anything other than "online" and True
\* when it is "online".
C3_ConnectOnlineOnly ==
    (op \in {"connect", "wifi_connect"} /\ Answered200) =>
        ret = PyBool(reply.body = "online")

\* C4: after a connect() of an ArduinoController that returns False the
\* controller is not connected, whatever its state before the call; it is
\* connected after a connect() only when the status probe reported the
\* ready status or it was connected before.
C4_FailedConnectDisconnects ==
    op = "connect" =>
        /\ ret = "False" => ~is_connected
        /\ (is_connected /\ ~pre_connected) =>
               (Answered200 /\ reply.body = "ready")

\* C10: on a connected ArduinoController send_pattern returns True exactly
\* when the POST /pattern response has status 200 and a body whose status
\* is "ok", and False on a transport failure, a non-2xx status or a
\* rejection in the body.
C10_SendPatternResult ==
    (op = "send_pattern" /\ pre_connected) =>
        /\ requests = <<"POST /pattern">>
        /\ ret \in {"True", "False"}
        /\ ret = "True" <=>
               (reply.kind = "http" /\ reply.status = 200 /\ reply.body = "ok")
        /\ reply.kind \in {"timeout", "refused"} => ret = "False"
        /\ (reply.kind = "http" /\ reply.status \notin 200..299) =>
               ret = "False"
        /\ (reply.kind = "http" /\ reply.body = "error") => ret = "False"

C10_Witness ==
    /\ op = "send_pattern"
    /\ pre_connected
    /\ reply.kind = "http"
    /\ reply.status = 200
    /\ reply.body = "ok"
    /\ ret = "True"

ArduinoOps == {"connect", "disconnect", "send_pattern", "stop", "get_status"}

\* the device or the network let the request of the last operation down
DeviceFailed ==
    \/ reply.kind \in {"timeout", "refused"}
    \/ reply.kind = "http" /\ reply.status >= 500
    \/ reply.kind = "http" /\ reply.body = "nonjson"

\* the number of entries of a sequence that equal x
Count(seq, x) == Cardinality({i \in 1..Len(seq) : seq[i] = x})

\* C11: no operation of ArduinoController (connect, send_pattern, stop,
\* get_status, disconnect) lets an exception escape, whatever the device or
\* the network does and in whatever order the operations are called; a
\* failure is returned as False (connect, send_pattern, stop) or None
\* (get_status, disconnect).
C11_NoExceptionEscapes ==
    op \in ArduinoOps =>
        /\ ret /= "raised"
        /\ (DeviceFailed \/ (op = "get_status" /\ requests = <<>>)) =>
               /\ op \in {"connect", "send_pattern", "stop"} => ret = "False"
               /\ op \in {"get_status", "disconnect"} => ret = "None"

C11_Witness ==
    /\ op = "get_status"
    /\ session = "closed"
    /\ requests = <<>>
    /\ ret = "None"

\* C12: disconnect() on a connected ArduinoController issues the stop
\* request before the session is released; a stop that fails does not
\* prevent the release; when disconnect() returns is_connected is false and
\* the controller holds no session.  On a controller that is not connected
\* no stop request is issued.
C12_DisconnectStopsThenReleases ==
    op = "disconnect" =>
        /\ ~is_connected
        /\ session = "none"
        /\ live = 0
        /\ pre_connected => requests = <<"POST /stop", "close">>
        /\ ~pre_connected => Count(requests, "POST /stop") = 0

C12_Witness ==
    /\ op = "disconnect"
    /\ pre_connected
    /\ reply.kind = "timeout"
    /\ requests = <<"POST /stop", "close">>
    /\ session = "none"
    /\ ~is_connected

\* C13: across any sequence of connect, get_status, send_pattern, stop and
\* disconnect calls an ArduinoController owns at most one open session: a
\* session is opened only when none is held or the held one is closed, and
\* an open session is never replaced without being closed.
C13_AtMostOneOpenSession ==
    /\ live <= 1
    /\ live = 1 <=> session = "open"

C13_Witness ==
    /\ op = "connect"
    /\ history = "connected"
    /\ pre_connected
    /\ session = "open"
    /\ live = 1

\* C16: one send_pattern call issues at most one POST /pattern, whatever
\* the outcome: a pattern is never sent again.
C16_SendPatternPostsOnce ==
    op = "send_pattern" =>
        /\ Count(requests, "POST /pattern") <= 1
        /\ Len(requests) <= 1

C16_Witness ==
    /\ op = "send_pattern"
    /\ pre_connected
    /\ reply.kind = "http"
    /\ reply.status = 500
    /\ requests = <<"POST /pattern">>
    /\ ret = "False"

\* a stop call is made when the last call to return was a stop call
SecondStop ==
    /\ op = "stop"
    /\ \/ frame'[MainCaller].op = "stop"
       \/ AtRest /\ frame' = frame /\ op' = "stop"

\* the POST /stop of a stop call is answered
StopAnswers == frame[MainCaller].op = "stop" /\ op' = "stop"

\* C17: stop() is idempotent: a second call leaves is_connected and the
\* session as the first call left them, each call sends one POST /stop when
\* the controller is connected and none when it is not, and the two calls
\* return the same result when the device answers them in the same way
\* (what a call returns is fixed by the answer of the device).
C17_StopIdempotent ==
    /\ [](op = "stop" =>
             /\ requests = IF pre_connected THEN <<"POST /stop">> ELSE <<>>
             /\ ret = PyBool(pre_connected /\ StopAccepted(reply)))
    /\ [][(SecondStop \/ StopAnswers) =>
             /\ is_connected' = is_connected
             /\ session' = session
             /\ live' = live
             /\ SecondStop =>
                    IF frame'[MainCaller].op = "stop"
                    THEN frame'[MainCaller].pre = pre_connected
                    ELSE /\ pre_connected' = pre_connected
                         /\ requests' = requests
                         /\ ret' = ret]_vars

C17_Witness ==
    /\ op = "stop"
    /\ pre_connected
    /\ is_connected
    /\ session = "open"
    /\ requests = <<"POST /stop">>
    /\ ret = "True"

----------------------------------------------------------------------------
(* Properties of the retry helper (RetrySpec) *)

\* attempt k of the call met a timeout, an exception (a closed session
\* among them) or a 5xx response
AttemptFailed(k) ==
    \/ result.attempts[k + 1].kind \in {"timeout", "refused", "closed"}
    \/ result.attempts[k + 1].status >= 500

\* the sleeps of the call so far, in order
Sleeps == SelectSeq(result.events, LAMBDA e : e.event = "sleep")

\* C14: _retry_request makes at most retry_count attempts; after the failed
\* attempt k (counted from 0) it waits 2^k seconds before the next attempt
\* and does not wait after the last one; when every attempt fails it
\* returns None and does not raise.
C14_RetryBackoff ==
    tool = "_retry_request" =>
        LET ev == result.events
            n == args.retry_count
            made == Len(result.attempts)
        IN  /\ made <= n
            /\ Count([i \in 1..Len(ev) |-> ev[i].event], "request") <= n
            /\ result.ret /= "raised"
            /\ Len(Sleeps) <= Max(0, n - 1)
            /\ \A k \in 0..(made - 1) :
                   (AttemptFailed(k) /\ k < n - 1) =>
                       /\ Len(Sleeps) > k
                       /\ Sleeps[k + 1].n = 2 ^ k
            /\ \A i \in 1..Len(ev) :
                   ev[i].event = "sleep" =>
                       \E k \in 0..(made - 1) :
                           /\ ev[i].n = 2 ^ k
                           /\ AttemptFailed(k)
                           /\ k < n - 1
                           /\ \A j \in 1..(i - 1) :
                                  \/ ev[j].event = "request" /\ ev[j].n <= k
                                  \/ ev[j].event = "sleep" /\ ev[j].n < 2 ^ k
                           /\ \A j \in (i + 1)..Len(ev) :
                                  \/ ev[j].event = "request" /\ ev[j].n > k
                                  \/ ev[j].event = "sleep" /\ ev[j].n > 2 ^ k
            /\ (/\ result.ret /= "pending"
                /\ \A k \in 0..(made - 1) : AttemptFailed(k)) =>
                   /\ result.ret = "None"
                   /\ made = n
                   /\ Len(Sleeps) = Max(0, n - 1)

C14_Witness ==
    /\ tool = "_retry_request"
    /\ args.retry_count = 3
    /\ Len(result.attempts) = 3
    /\ result.attempts[1].kind = "timeout"
    /\ result.attempts[2].kind = "refused"
    /\ result.attempts[3].status = 503
    /\ result.ret = "None"
    /\ result.events = <<[event |-> "request", n |-> 0],
                         [event |-> "sleep", n |-> 1],
                         [event |-> "request", n |-> 1],
                         [event |-> "sleep", n |-> 2],
                         [event |-> "request", n |-> 2]>>

\* C15: in _retry_request a response with a status below 500 ends the call
\* at the attempt that received it: the response is returned and no further
\* attempt or backoff follows; only a timeout, an exception or a 5xx
\* response leads to another attempt.
C15_ClientErrorNotRetried ==
    tool = "_retry_request" =>
        LET ev == result.events
            made == Len(result.attempts)
        IN  \A k \in 0..(made - 1) :
                /\ ~AttemptFailed(k) =>
                       /\ k = made - 1
                       /\ ev[Len(ev)] = [event |-> "request", n |-> k]
                       /\ result.ret = "response"
                       /\ result.status = result.attempts[k + 1].status
                /\ k > 0 => AttemptFailed(k - 1)

C15_Witness ==
    /\ tool = "_retry_request"
    /\ args.retry_count = 3
    /\ Len(result.attempts) = 2
    /\ result.attempts[1].status = 500
    /\ result.attempts[2].status = 404
    /\ result.ret = "response"
    /\ result.status = 404
    /\ result.events = <<[event |-> "request", n |-> 0],
                         [event |-> "sleep", n |-> 1],
                         [event |-> "request", n |-> 1]>>

----------------------------------------------------------------------------
(* Properties of custom patterns and of the wire format (PatSpec) *)

KnownPatternTypes == {"pulse", "wave", "burst", "fade"}

\* C18: create_custom_pattern clamps its intensity argument into [0,1]
\* before building the steps: for every pattern type (pulse, wave, burst,
\* fade or unknown) and every intensity argument, every step intensity of
\* the result lies in [0,1].
C18_CustomIntensityClamped ==
    tool = "create_custom_pattern" =>
        \A i \in 1..Len(result.steps) :
            /\ result.steps[i].intensity >= 0
            /\ result.steps[i].intensity <= Fine

C18_Witness ==
    /\ tool = "create_custom_pattern"
    /\ args.pattern_type = "wave"
    /\ args.intensity = Tenths(10 + OverRange)
    /\ Len(result.steps) = 3
    /\ result.steps[2].intensity = Tenths(7) * One
    /\ result.steps[3].intensity = Fine

\* C19: create_custom_pattern with a type that is none of pulse, wave,
\* burst, fade does not raise: it returns a pattern of exactly one step with
\* the clamped intensity and the given duration, and keeps the given
\* repeat_count.
C19_UnknownTypeSingleStep ==
    (tool = "create_custom_pattern"
         /\ args.pattern_type \notin KnownPatternTypes) =>
        /\ Len(result.steps) = 1
        /\ result.steps[1].intensity
               = Max(0, Min(One, args.intensity)) * One
        /\ result.steps[1].duration = args.duration_ms
        /\ result.repeat_count = args.repeat_count

C19_Witness ==
    /\ tool = "create_custom_pattern"
    /\ args.pattern_type = "zigzag"
    /\ args.intensity = Tenths(10 + OverRange)
    /\ args.duration_ms = 1000
    /\ args.repeat_count = 2
    /\ result.steps = <<[intensity |-> Fine, duration |-> 1000]>>
    /\ result.repeat_count = 2

\* C20: every step serialized for POST /pattern by VibrationPattern.to_dict
\* with the default scale carries an integer intensity in 0..100 and an
\* integer duration, for every pattern of from_emotion_values (values 0..5)
\* and of create_custom_pattern.
C20_WireStepsInRange ==
    tool = "to_dict" =>
        \A i \in 1..Len(result.steps) :
            /\ result.steps[i].intensity \in 0..100
            /\ result.steps[i].duration \in Int

C20_Witness ==
    /\ tool = "to_dict"
    /\ emotions = Emotions(0, 0, 5, 0)
    /\ Len(result.steps) = 5
    /\ result.steps[3].intensity = 100
    /\ result.steps[3].duration = 150

----------------------------------------------------------------------------
(* Further properties of the pattern generators (GenSpec) *)

\* Python round() of a non-negative fixed-point number: to the nearest
\* integer, a half going to the even neighbour
PyRound(x) ==
    LET whole == x \div One
        rest == x % One
    IN  IF 2 * rest > One THEN whole + 1
        ELSE IF 2 * rest < One THEN whole
        ELSE IF whole % 2 = 0 THEN whole ELSE whole + 1

\* C21: in the literal-step variant of generate_vibration_pattern (the
\* agent tool), for every non-zero emotion vector with values in 0..5 the
\* emitted repeat_count equals max(3, round(base_frequency *
\* emotion_multiplier * frequency_adjustment)) and is never below 3.
C21_RepeatCountRounded ==
    (/\ tool = "agent"
     /\ GenerateVibrationArgs(emotions)
     /\ result.vibration_enabled) =>
        /\ result.vibration_pattern.repeat_count
               = Max(3, PyRound(result.frequency))
        /\ result.vibration_pattern.repeat_count >= 3

\* the emotion vector with every value brought into 0..5
ClampedEmotions == [k \in Keys |-> Max(0, Min(5, emotions[k]))]

\* C22: emotion values outside 0..5 supplied to pattern generation are
\* clamped into the range rather than rejected: the call returns the
\* pattern generated for the clamped values, and no error is returned.
C22_OutOfRangeClamped ==
    LET c == ClampedEmotions IN
        /\ tool = "from_emotion_values" =>
               result = from_emotion_values(c.joy, c.fun, c.anger, c.sad)
        /\ tool = "direct" =>
               result = generate_vibration_pattern_direct(c.joy, c.fun,
                                                          c.anger, c.sad)
        /\ tool = "server" =>
               /\ result /= ValidationError
               /\ result = server_generate_vibration_pattern(c.joy, c.fun,
                                                             c.anger, c.sad)

\* the repeat factor stated for the dominant values 1..5
RepeatFactor == <<1, 1, 2, 2, 3>>

\* the vector in which only emotion k is present, with value v
Only(k, v) == [j \in Keys |-> IF j = k THEN v ELSE 0]

\* C23: from_emotion_values changes only the intensities and the repeat
\* count of the dominant emotion's preset: the result has the preset's
\* number of steps, step durations and interval, and its repeat_count is the
\* preset's times 1 + (v - 1) div 2 for the dominant value v (x1 for 1..2,
\* x2 for 3..4, x3 for 5), so it never decreases when v increases.
C23_PresetShapeKept ==
    (tool = "from_emotion_values" /\ DominantValue >= 1) =>
        LET preset == get_pattern(FirstMaxKey)
            v == DominantValue
        IN  /\ Len(result.steps) = Len(preset.steps)
            /\ Durations(result.steps) = Durations(preset.steps)
            /\ result.interval = preset.interval
            /\ result.repeat_count
                   = preset.repeat_count * (1 + (v - 1) \div 2)
            /\ v <= 5 =>
                   result.repeat_count = preset.repeat_count * RepeatFactor[v]
            /\ \A w \in 1..v :
                   LET e == Only(FirstMaxKey, w) IN
                       from_emotion_values(e.joy, e.fun, e.anger,
                                           e.sad).repeat_count
                           <= result.repeat_count

C23_Witness ==
    /\ tool = "from_emotion_values"
    /\ emotions = Emotions(0, 0, 5, 2)
    /\ Len(result.steps) = 5
    /\ result.interval = 20
    /\ result.repeat_count = 9

----------------------------------------------------------------------------
(* Properties of the chatbot (ChatSpec) *)

\* C24: after any sequence of EmotionalChatbot.process_input calls (touch
\* intensities of any value, valid or invalid JSON) each of joy, fun, anger
\* and sad stays within [0,5], and an input that is not valid JSON or lacks
\* data or touched_area leaves the emotion state unchanged.
C24_ChatEmotionInRange ==
    /\ [](\A k \in Keys : /\ chat_emotion[k] >= 0
                        /\ chat_emotion[k] <= 5 * ChatOne)
    /\ [][(/\ chat_calls' = chat_calls + 1
           /\ chat_input'.kind \in {"nonjson", "no_data", "no_area"})
          => chat_emotion' = chat_emotion]_vars

C24_Witness ==
    /\ chat_calls = MaxChatCalls
    /\ chat_input = [kind |-> "touch", data |-> Tenths(5)]
    /\ chat_emotion.joy = 5 * ChatOne
    /\ chat_emotion.fun = ChatTenths(43)
    /\ chat_emotion.anger = 0

----------------------------------------------------------------------------
(* Properties of interleaved coroutines (IlvSpec) *)

\* a disconnect() has posted its stop request and has not returned yet
DisconnectStopped ==
    \E c \in Callers :
        /\ frame[c].op = "disconnect"
        /\ frame[c].pre
        /\ frame[c].pc \in {"stop_wait", "closing"}

\* C25: when send_pattern calls interleave with a disconnect() on the same
\* ArduinoController, no POST /pattern is issued after the stop request of
\* that disconnect(): the last command the device receives before the
\* session is closed is the stop.
C25_NoPatternAfterStop ==
    DisconnectStopped => last_sent /= "POST /pattern"

----------------------------------------------------------------------------
(* Properties of the tool glue (GlueSpec) *)

\* C26: for any sequence or interleaving of initialize_arduino calls at most
\* one controller created by them holds an open session at any time: every
\* controller that is replaced in the process-wide reference has been
\* disconnected and its session closed, including a controller whose
\* connect() had failed.
C26_OneControllerSession ==
    /\ Cardinality(OpenSessions) <= 1
    /\ \A i \in OpenSessions : i = held

\* C27: control_vibration reports arduino_sent true only when a request (the
\* stop for vibration_enabled false, the pattern otherwise) was sent through
\* a connected controller and acknowledged by the device; with no
\* controller or a disconnected one it reports arduino_sent false.
C27_SentMeansAcknowledged ==
    op = "control_vibration" =>
        /\ arduino_sent = "True" =>
               /\ pre_connected
               /\ vibration_enabled = "True" =>
                      requests = <<"POST /pattern">> /\ PatternAccepted(reply)
               /\ vibration_enabled = "False" =>
                      requests = <<"POST /stop">> /\ StopAccepted(reply)
        /\ ~pre_connected => arduino_sent = "False"

----------------------------------------------------------------------------
(* Properties of the WiFi vibration server (WifiSpec) *)

\* C28: with a connected VibrationSensorControllerWiFi, control_vibration
\* (vibration enabled or not) and send_arduino_vibration reach the device:
\* send_command with action "vibrate" or "stop_vibration" issues an HTTP
\* request.
C28_VibrateReachesDevice ==
    (op \in {"wifi_control_vibration", "wifi_send_arduino_vibration"}
     /\ pre_connected /\ controllers[held].session = "open")
        => requests /= <<>>

----------------------------------------------------------------------------
(* Properties of the serial controller (SerialSpec) *)

\* C29: when the device answers the status request of connect() with status
\* "online" within the response timeout, connect() eventually returns true
\* and sets is_connected: the reply is read and reaches the response queue
\* that connect() waits on.
C29_OnlineReplyConnects ==
    \A c \in Callers :
        (/\ Waits(c, "serial_connect", "response_wait")
         /\ ser_turns[c] < MaxWaitTurns
         /\ ser_buffer /= <<>>
         /\ ser_buffer[1] = "online")
            ~> (op = "serial_connect" /\ ret = "True" /\ ser_connected)

----------------------------------------------------------------------------
(* Properties of WiFi monitoring under a sequence of calls (MonSeqSpec) *)

AliveTasks == {i \in 1..Len(mon_tasks) : Alive(mon_tasks[i].st)}

\* stop_monitoring or disconnect has returned, and no start has begun since
Stopped == mon_stopped

\* C30: for any sequence of start_monitoring, stop_monitoring and disconnect
\* on one VibrationSensorControllerWiFi at most one monitoring loop task is
\* alive at a time, and after stop_monitoring or disconnect has returned no
\* monitoring loop is running and no further callback is triggered.
C30_OneMonitorLoop ==
    /\ [](/\ Cardinality(AliveTasks) <= 1
          /\ Stopped => AliveTasks = {})
    /\ [][(Stopped /\ Stopped') => mon_callbacks' = mon_callbacks]_vars

\* a second loop was started while the first waited in a coroutine
\* callback, the callbacks were called again, and stop_monitoring has
\* returned while the start_monitoring call that created the second loop
\* still stands in its keep-alive loop
C30_Witness ==
    /\ Len(mon_tasks) = 2
    /\ mon_tasks[1].st = "cancelled"
    /\ mon_tasks[2].st = "cancelled"
    /\ mon_callbacks = MaxCallbacks
    /\ callbacks /= <<>>
    /\ callbacks[1] = "coroutine"
    /\ mon_stopped
    /\ mon_task = 0
    /\ \E c \in Callers : Waits(c, "start_monitoring", "keeping")

====
